---- MODULE Spec2Model ----
(***************************************************************************)
(* The discovery pipeline of Nexus: the on-disk DiscoveryCache             *)
(* (core/discovery/cache.py) and DiscoveryEngine.discover                  *)
(* (core/discovery/engine.py), over a small file system and a clock.       *)
(*                                                                         *)
(* Conventions.  A Python value that may be missing from a dict is the     *)
(* string "absent"; Python booleans are the strings "True" and "False".    *)
(* An md5 digest is modelled by the text it digests (md5 is taken to be    *)
(* collision free).  Time is counted in hours.  Deleting a cache file      *)
(* (unlink) always succeeds; opening or writing one may fail.              *)
(***************************************************************************)
EXTENDS Integers, Sequences, FiniteSets, TLC

VARIABLES
    now,        \* the wall clock, datetime.now(), in hours
    dirExists,  \* dirExists[d]: the directory d exists
    files,      \* files[d]: the tracked manifest files in d, name :> <<mtime, size>>
    cache,      \* the cache directory: key :> content of <key>.cache
    ret,        \* what the last call of the public interface returned
    inv,        \* the running DiscoveryEngine.discover invocation (its locals)
    scope       \* the arguments this behaviour's callers use; never changes

vars == <<now, dirExists, files, cache, ret, inv, scope>>

----------------------------------------------------------------------------
(* Bounds of the model *)

MaxTicks == 3    \* the clock advances at most this many half-TTL steps
MaxMtime == 2    \* a manifest's st_mtime is in 1..MaxMtime
MaxSize  == 2    \* a manifest's st_size is in 1..MaxSize

----------------------------------------------------------------------------
(* Paths *)

WA  == "/w/a"    \* an absolute project directory
REL == "a"       \* the same directory, spelled relative to the cwd /w
WB  == "/w/b"    \* another project directory
NoPath == "None"

Paths == {WA, REL, WB}
Dirs  == {WA, WB}

\* Path.resolve(): the absolute path a spelling stands for
resolve(p) == IF p = REL THEN WA ELSE p

\* str(path): the spelling as given
str(p) == p

----------------------------------------------------------------------------
(* Options: a dict over the keys cache, deep, languages *)

PySet  == "{'py'}"    \* a set of language names: json.dumps raises TypeError on it

Opt(c, d, l) == [cache |-> c, deep |-> d, languages |-> l]

O0   == Opt("absent", "absent", "absent")    \* {}
O1   == Opt("True", "absent", "absent")      \* {'cache': True}
O2   == Opt("True", "True", "absent")        \* {'cache': True, 'deep': True}
OBad == Opt("True", "absent", PySet)         \* {'cache': True, 'languages': {'py'}}

Options == {O0, O1, O2, OBad}

\* a cache option that is on unless switched off: options.get('cache', True)
CacheRequested_default_on(o) == o.cache # "False"

\* options.get('cache', False), as a truth value
CacheRequested(o) == o.cache = "True"

----------------------------------------------------------------------------
(* The cache: cache.py *)

default_ttl == 24

important_files ==
    << "requirements.txt", "pyproject.toml", "package.json",
       "setup.py", "Pipfile", "yarn.lock", "package-lock.json" >>

\* The manifests the environment creates, rewrites and removes
Touched == {"setup.py"}

\* json.dumps(key_data) raises TypeError on a value it cannot serialise
KeyRaises(o) == o.languages = PySet

\* a key that leaves the deep option out
_generate_cache_key_without_deep(p, o) == <<resolve(p), "absent", o.languages>>

\* a key made of the options alone
_generate_cache_key_options_only(p, o) == <<WA, o.deep, o.languages>>

\* _generate_cache_key: md5 of the JSON of the resolved path and of the
\* options restricted to deep and languages
_generate_cache_key(p, o) == <<resolve(p), o.deep, o.languages>>

RECURSIVE HashPartsNoSize(_, _)
\* a hash loop that records name:mtime only
HashPartsNoSize(p, i) ==
    IF i > Len(important_files) THEN << >>
    ELSE LET name == important_files[i]
             here == files[resolve(p)]
         IN  (IF name \in DOMAIN here
                 THEN << <<name, here[name][1], 0>> >>
                 ELSE << >>)
             \o HashPartsNoSize(p, i + 1)

_calculate_file_hash_without_size(p) == [path |-> str(p), parts |-> HashPartsNoSize(p, 1)]

RECURSIVE HashParts(_, _)
\* the loop of _calculate_file_hash from important_files[i] on
HashParts(p, i) ==
    IF i > Len(important_files) THEN << >>
    ELSE LET name == important_files[i]
             here == files[resolve(p)]
         IN  (IF name \in DOMAIN here
                 THEN << <<name, here[name][1], here[name][2]>> >>
                 ELSE << >>)
             \o HashParts(p, i + 1)

\* _calculate_file_hash: md5 of str(target_path) followed by name:mtime:size
\* of each tracked manifest that exists
_calculate_file_hash(p) == [path |-> str(p), parts |-> HashParts(p, 1)]

\* a validity check that expires an entry at the TTL, not after it
ValidityBranchStrict(e, p) ==
    IF now - e.timestamp >= 24 THEN "expired"
    ELSE IF [path |-> str(p), parts |-> HashParts(p, 1)] # e.file_hash THEN "stale"
    ELSE "valid"

\* _is_cache_valid, as the line it returns from
ValidityBranch(e, p) ==
    IF now - e.timestamp > default_ttl THEN "expired"
    ELSE IF _calculate_file_hash(p) # e.file_hash THEN "stale"
    ELSE "valid"

_is_cache_valid(e, p) == ValidityBranch(e, p) = "valid"

Put(f, k, v) == [x \in DOMAIN f \cup {k} |-> IF x = k THEN v ELSE f[x]]
Del(f, K)    == [x \in DOMAIN f \ K |-> f[x]]

None    == [kind |-> "none"]
Corrupt == [kind |-> "corrupt"]

\* the dict set() pickles; snap is a history field no operation reads: the
\* tracked manifests of the target when the entry was written
cache_data(p, o, results) ==
    [ kind        |-> "entry",
      timestamp   |-> now,
      target_path |-> str(p),
      options     |-> o,
      file_hash   |-> _calculate_file_hash(p),
      results     |-> results,
      snap        |-> files[resolve(p)] ]

\* a get that unlinks the file it returns
get_evicting(p, o) ==
    LET k == <<resolve(p), o.deep, o.languages>> IN
    IF k \notin DOMAIN cache
        THEN [value |-> None, cache |-> cache, branch |-> "nofile", found |-> None]
    ELSE IF cache[k].kind = "corrupt"
        THEN [value |-> None, cache |-> Del(cache, {k}), branch |-> "corrupt",
              found |-> cache[k]]
    ELSE IF ValidityBranch(cache[k], p) = "valid"
        THEN [value |-> cache[k].results, cache |-> Del(cache, {k}), branch |-> "hit",
              found |-> cache[k]]
    ELSE [value |-> None, cache |-> Del(cache, {k}),
          branch |-> ValidityBranch(cache[k], p), found |-> cache[k]]

\* a get that leaves a corrupt file in place
get_keeping_corrupt(p, o) ==
    LET k == <<resolve(p), o.deep, o.languages>> IN
    IF k \notin DOMAIN cache
        THEN [value |-> None, cache |-> cache, branch |-> "nofile", found |-> None]
    ELSE IF cache[k].kind = "corrupt"
        THEN [value |-> None, cache |-> cache, branch |-> "corrupt", found |-> cache[k]]
    ELSE IF ValidityBranch(cache[k], p) = "valid"
        THEN [value |-> cache[k].results, cache |-> cache, branch |-> "hit",
              found |-> cache[k]]
    ELSE [value |-> None, cache |-> Del(cache, {k}),
          branch |-> ValidityBranch(cache[k], p), found |-> cache[k]]

\* DiscoveryCache.get (past the key): the value returned, the cache
\* directory afterwards, and the return statement taken
get(p, o) ==
    LET k == _generate_cache_key(p, o) IN
    IF k \notin DOMAIN cache
        THEN [value |-> None, cache |-> cache, branch |-> "nofile", found |-> None]
    ELSE IF cache[k].kind = "corrupt"
        THEN [value |-> None, cache |-> Del(cache, {k}), branch |-> "corrupt",
              found |-> cache[k]]
    ELSE IF _is_cache_valid(cache[k], p)
        THEN [value |-> cache[k].results, cache |-> cache, branch |-> "hit",
              found |-> cache[k]]
    ELSE [value |-> None, cache |-> Del(cache, {k}),
          branch |-> ValidityBranch(cache[k], p), found |-> cache[k]]

WriteOutcomes == {"ok", "open_fails", "dump_fails"}

\* DiscoveryCache.set (past the key): the cache directory afterwards, for
\* each outcome of open(cache_file, 'wb') and pickle.dump
set(p, o, results, w) ==
    LET k == _generate_cache_key(p, o) IN
    CASE w = "ok"         -> Put(cache, k, cache_data(p, o, results))
      [] w = "open_fails" -> cache
      [] w = "dump_fails" -> Put(cache, k, Corrupt)

\* a clear that unlinks every readable entry, whatever its path
Unlinked_any_path(tp) ==
    IF tp # NoPath
        THEN {k \in DOMAIN cache : cache[k].kind = "entry"}
        ELSE DOMAIN cache

\* DiscoveryCache.clear: the cache files it unlinks
Unlinked(tp) ==
    IF tp # NoPath
        THEN {k \in DOMAIN cache : /\ cache[k].kind = "entry"
                                   /\ cache[k].target_path = str(tp)}
        ELSE DOMAIN cache

\* DiscoveryCache.clear: the cache directory afterwards
clear(tp) == Del(cache, Unlinked(tp))

----------------------------------------------------------------------------
(* The pipeline stages, as far as the engine sees them *)

\* an analysis that records when it ran
analyze_stamped(tp, o) ==
    [ target    |-> tp,
      languages |-> o.languages,
      deep      |-> IF o.deep = "absent" THEN "False" ELSE o.deep,
      manifests |-> files[tp],
      analysed  |-> now ]

\* CodeAnalyzer.analyze on an existing directory: the facts, by what they
\* are computed from
analyze(tp, o) ==
    [ target    |-> tp,
      languages |-> o.languages,
      deep      |-> IF o.deep = "absent" THEN "False" ELSE o.deep,
      manifests |-> files[tp] ]

\* CodeAnalyzer.analyze raises (FileNotFoundError from iterdir) when the
\* target does not exist
AnalyzeRaises(tp) == ~dirExists[tp]

\* DiscoverySynthesizer.synthesize: a function of the facts alone
synthesize(a) == [from_analysis |-> a]

\* DiscoveryValidator.validate: a function of the facts and the synthesis
validate(a, s) == [from_analysis |-> a, from_synthesis |-> s]

\* DiscoveryEngine._generate_metadata
_generate_metadata(tp, o) ==
    [target_path |-> str(tp), timestamp |-> now, options |-> o]

\* a packaging that leaves the validation out
discovery_results_unvalidated(m, a, s, v) ==
    [metadata |-> m, analysis |-> a, synthesis |-> s, validation |-> [kind |-> "none"]]

\* the dict discover packages (step 5)
discovery_results(m, a, s, v) ==
    [metadata |-> m, analysis |-> a, synthesis |-> s, validation |-> v]

\* what a whole pipeline run on tp yields at time t with the manifests fs
PipelineResults(tp, o, t, fs) ==
    LET a == [ target |-> tp, languages |-> o.languages,
               deep |-> IF o.deep = "absent" THEN "False" ELSE o.deep,
               manifests |-> fs ]
        s == synthesize(a)
    IN  discovery_results([target_path |-> str(tp), timestamp |-> t, options |-> o],
                          a, s, validate(a, s))

NoFiles == [x \in {} |-> <<0, 0>>]

\* the results a caller hands to DiscoveryCache.set directly
R1 == PipelineResults(WA, O1, 0, NoFiles)
R2 == PipelineResults(WB, O2, 0, NoFiles)

----------------------------------------------------------------------------
(* State *)

NoRet ==
    [ op |-> "none", path |-> NoPath, options |-> O0, outcome |-> "none",
      value |-> None, branch |-> "none", trace |-> << >>, found |-> None ]

Idle ==
    [ pc |-> "idle", target_path |-> NoPath, options |-> O0,
      analysis_data |-> None, synthesis_data |-> None, validation_data |-> None,
      trace |-> << >> ]

\* One behaviour draws its calls from one universe: either one cache key
\* under a moving clock and moving manifests, or every key under a frozen
\* environment.
Scopes ==
    { [paths |-> {WA, REL}, options |-> {O0, O1}, results |-> {R2},
       moving |-> TRUE],
      [paths |-> {WA, WB}, options |-> Options, results |-> {R1},
       moving |-> FALSE] }

\* the directories the behaviour's paths stand for
ScopeDirs == {resolve(p) : p \in scope.paths}

Init ==
    /\ now = 0
    /\ dirExists = [d \in Dirs |-> TRUE]
    /\ files = [d \in Dirs |-> NoFiles]
    /\ cache = [k \in {} |-> Corrupt]
    /\ ret = NoRet
    /\ inv = Idle
    /\ scope \in Scopes

----------------------------------------------------------------------------
(* The environment, between calls *)

\* time passes
Tick ==
    /\ inv.pc = "idle" /\ scope.moving
    /\ now + (default_ttl \div 2) <= MaxTicks * (default_ttl \div 2)
    /\ now' = now + (default_ttl \div 2)
    /\ ret' = NoRet
    /\ UNCHANGED <<dirExists, files, cache, inv, scope>>

\* a tracked manifest is created or rewritten
Touch(d, f, m, s) ==
    /\ inv.pc = "idle" /\ scope.moving
    /\ dirExists[d]
    /\ files' = [files EXCEPT ![d] = Put(@, f, <<m, s>>)]
    /\ files' # files
    /\ ret' = NoRet
    /\ UNCHANGED <<now, dirExists, cache, inv, scope>>

\* a tracked manifest is removed
Remove(d, f) ==
    /\ inv.pc = "idle" /\ scope.moving
    /\ f \in DOMAIN files[d]
    /\ files' = [files EXCEPT ![d] = Del(@, {f})]
    /\ ret' = NoRet
    /\ UNCHANGED <<now, dirExists, cache, inv, scope>>

\* a project directory is removed with all it holds
RemoveDir(d) ==
    /\ inv.pc = "idle" /\ scope.moving
    /\ dirExists[d]
    /\ dirExists' = [dirExists EXCEPT ![d] = FALSE]
    /\ files' = [files EXCEPT ![d] = NoFiles]
    /\ ret' = NoRet
    /\ UNCHANGED <<now, cache, inv, scope>>

\* a project directory is created, empty
MakeDir(d) ==
    /\ inv.pc = "idle" /\ scope.moving
    /\ ~dirExists[d]
    /\ dirExists' = [dirExists EXCEPT ![d] = TRUE]
    /\ ret' = NoRet
    /\ UNCHANGED <<now, files, cache, inv, scope>>

----------------------------------------------------------------------------
(* DiscoveryCache, called directly *)

\* found: the cache file a lookup read, as it was before the call; for clear,
\* the files it unlinked
Returned(op, p, o, v, b, tr, fnd) ==
    [ op |-> op, path |-> p, options |-> o, outcome |-> "return",
      value |-> v, branch |-> b, trace |-> tr, found |-> fnd ]

Raised(op, p, o, tr) ==
    [ op |-> op, path |-> p, options |-> o, outcome |-> "raise",
      value |-> None, branch |-> "none", trace |-> tr, found |-> None ]

CacheGet(p, o) ==
    /\ inv.pc = "idle"
    /\ IF KeyRaises(o)
          THEN /\ ret' = Raised("get", p, o, << >>)
               /\ cache' = cache
          ELSE /\ ret' = Returned("get", p, o, get(p, o).value, get(p, o).branch, << >>,
                                    get(p, o).found)
               /\ cache' = get(p, o).cache
    /\ UNCHANGED <<now, dirExists, files, inv, scope>>

CacheSet(p, o, results, w) ==
    /\ inv.pc = "idle"
    /\ IF KeyRaises(o)
          THEN /\ ret' = Raised("set", p, o, << >>)
               /\ cache' = cache
          ELSE /\ ret' = Returned("set", p, o, results, w, << >>, None)
               /\ cache' = set(p, o, results, w)
    /\ UNCHANGED <<now, dirExists, files, inv, scope>>

CacheClear(tp) ==
    /\ inv.pc = "idle"
    /\ ret' = Returned("clear", tp, O0, None, "none", << >>,
                     [kind |-> "unlinked", keys |-> Unlinked(tp)])
    /\ cache' = clear(tp)
    /\ UNCHANGED <<now, dirExists, files, inv, scope>>

----------------------------------------------------------------------------
(* DiscoveryEngine.discover, one statement group at a time *)

\* lines 56-66: resolve the path, default the options, consult the cache
Discover(p, o) ==
    LET tp == resolve(p) IN
    /\ inv.pc = "idle"
    /\ IF ~CacheRequested(o)
          THEN /\ inv' = [Idle EXCEPT !.pc = "analyze", !.target_path = tp, !.options = o]
               /\ ret' = NoRet
               /\ cache' = cache
       ELSE IF KeyRaises(o)
          THEN /\ inv' = Idle
               /\ ret' = Raised("discover", p, o, <<"get">>)
               /\ cache' = cache
       ELSE IF get(tp, o).value # None
          THEN /\ inv' = Idle
               /\ ret' = Returned("discover", p, o, get(tp, o).value, "cached", <<"get">>,
                                    get(tp, o).found)
               /\ cache' = get(tp, o).cache
       ELSE /\ inv' = [Idle EXCEPT !.pc = "analyze", !.target_path = tp, !.options = o,
                                   !.trace = <<"get">>]
            /\ ret' = NoRet
            /\ cache' = get(tp, o).cache
    /\ UNCHANGED <<now, dirExists, files, scope>>

\* line 70
Analyze ==
    /\ inv.pc = "analyze"
    /\ IF AnalyzeRaises(inv.target_path)
          THEN /\ inv' = Idle
               /\ ret' = Raised("discover", inv.target_path, inv.options,
                                inv.trace \o <<"analyze">>)
          ELSE /\ inv' = [inv EXCEPT !.pc = "synthesize",
                                     !.analysis_data = analyze(inv.target_path, inv.options),
                                     !.trace = @ \o <<"analyze">>]
               /\ ret' = ret
    /\ UNCHANGED <<now, dirExists, files, cache, scope>>

\* line 74
Synthesize ==
    /\ inv.pc = "synthesize"
    /\ inv' = [inv EXCEPT !.pc = "validate",
                          !.synthesis_data = synthesize(inv.analysis_data),
                          !.trace = @ \o <<"synthesize">>]
    /\ UNCHANGED <<now, dirExists, files, cache, ret, scope>>

\* line 78
Validate ==
    /\ inv.pc = "validate"
    /\ inv' = [inv EXCEPT !.pc = "package",
                          !.validation_data = validate(inv.analysis_data, inv.synthesis_data),
                          !.trace = @ \o <<"validate">>]
    /\ UNCHANGED <<now, dirExists, files, cache, ret, scope>>

\* lines 81-96: metadata, packaging, the optional cache write, the return
Package(w) ==
    LET results == discovery_results(_generate_metadata(inv.target_path, inv.options),
                                     inv.analysis_data, inv.synthesis_data,
                                     inv.validation_data)
    IN
    /\ inv.pc = "package"
    /\ inv' = Idle
    /\ IF ~CacheRequested(inv.options)
          THEN /\ w = "ok"
               /\ cache' = cache
               /\ ret' = Returned("discover", inv.target_path, inv.options, results,
                                  "computed", inv.trace, None)
       ELSE IF KeyRaises(inv.options)
          THEN /\ w = "ok"
               /\ cache' = cache
               /\ ret' = Raised("discover", inv.target_path, inv.options,
                                inv.trace \o <<"set">>)
       ELSE /\ cache' = set(inv.target_path, inv.options, results, w)
            /\ ret' = Returned("discover", inv.target_path, inv.options, results,
                               "computed", inv.trace \o <<"set">>, None)
    /\ UNCHANGED <<now, dirExists, files, scope>>

Next ==
    \/ Tick
    \/ \E d \in ScopeDirs, f \in Touched, m \in 1..MaxMtime, s \in 1..MaxSize :
          Touch(d, f, m, s)
    \/ \E d \in ScopeDirs, f \in Touched : Remove(d, f)
    \/ \E d \in ScopeDirs : RemoveDir(d)
    \/ \E d \in ScopeDirs : MakeDir(d)
    \/ \E p \in scope.paths, o \in scope.options : CacheGet(p, o)
    \/ \E p \in scope.paths, o \in scope.options, r \in scope.results, w \in WriteOutcomes :
          CacheSet(p, o, r, w)
    \/ \E tp \in scope.paths \cup {NoPath} : CacheClear(tp)
    \/ \E p \in scope.paths, o \in scope.options : Discover(p, o)
    \/ Analyze
    \/ Synthesize
    \/ Validate
    \/ \E w \in WriteOutcomes : Package(w)

Spec == Init /\ [][Next]_vars

----------------------------------------------------------------------------
(* Properties of the cache *)

\* the entry a call addresses: the resolved path with the deep and languages options
Addr(p, o) == <<resolve(p), o.deep, o.languages>>

\* the last call was a DiscoveryCache.get that returned
GetReturned == ret.op = "get" /\ ret.outcome = "return"

\* the age, at the lookup, of the entry the lookup read
FoundAge == now - ret.found.timestamp

\* a tracked manifest that existed when the entry read was written, and whose
\* mtime or size has changed since
ManifestChanged ==
    \E f \in DOMAIN ret.found.snap \cap DOMAIN files[resolve(ret.path)] :
        ret.found.snap[f] # files[resolve(ret.path)][f]

\* C1: a set that wrote its file leaves an entry holding its arguments, and
\* a get with the same path and options, made while the tracked manifests are
\* as they were at the set and the entry is no older than the TTL, returns the
\* results of the set and leaves the entry as it was.
C1_SetThenGetReturnsResult ==
    /\ (ret.op = "set" /\ ret.outcome = "return" /\ ret.branch = "ok") =>
          LET k == Addr(ret.path, ret.options) IN
          /\ k \in DOMAIN cache
          /\ cache[k].kind = "entry"
          /\ cache[k].results = ret.value
          /\ cache[k].target_path = ret.path
          /\ cache[k].options = ret.options
          /\ cache[k].timestamp = now
          /\ cache[k].snap = files[resolve(ret.path)]
    /\ ( /\ GetReturned
         /\ ret.found.kind = "entry"
         /\ ret.found.target_path = ret.path
         /\ ret.found.options = ret.options
         /\ ret.found.snap = files[resolve(ret.path)]
         /\ FoundAge <= default_ttl ) =>
          /\ ret.value = ret.found.results
          /\ Addr(ret.path, ret.options) \in DOMAIN cache
          /\ cache[Addr(ret.path, ret.options)] = ret.found

\* a hit on an entry written earlier, with a manifest present
C1_Witness ==
    /\ GetReturned /\ ret.branch = "hit"
    /\ ret.value = R2
    /\ ret.found.snap # NoFiles
    /\ FoundAge = default_ttl \div 2
    /\ cache[Addr(ret.path, ret.options)] = ret.found

\* C2: a get that reads an entry written when some tracked manifest had another
\* mtime or size than it has now returns a miss, whatever the entry's age.
C2_ChangedManifestMisses ==
    (GetReturned /\ ret.found.kind = "entry" /\ ManifestChanged) => ret.value = None

\* a miss on a fresh entry of the same path whose manifest was rewritten
C2_Witness ==
    /\ GetReturned /\ ret.value = None
    /\ ret.found.kind = "entry"
    /\ ret.found.target_path = ret.path
    /\ ManifestChanged
    /\ FoundAge = 0

\* C3 as stated: every entry whose age is the TTL or more is a miss.
C3_AgeAtTtlMisses ==
    (GetReturned /\ ret.found.kind = "entry" /\ FoundAge >= default_ttl)
        => ret.value = None

\* C3, amended: an entry is valid iff its age is at most the TTL and its stored
\* hash equals the recomputed one; get returns a miss for an entry older than
\* the TTL, and an entry of age exactly the TTL is still served.
C3_ValidIffAgeAtMostTtl ==
    (GetReturned /\ ret.found.kind = "entry") =>
        /\ (ret.value # None) <=>
              ( /\ FoundAge <= default_ttl
                /\ ret.found.file_hash = _calculate_file_hash(ret.path) )
        /\ ret.value # None => ret.value = ret.found.results

\* a hit on an entry whose age is exactly the TTL
C3_Witness ==
    /\ GetReturned /\ ret.branch = "hit"
    /\ FoundAge = default_ttl

C5_SetNeverRaises ==
    /\ ret.op = "set" => ret.outcome = "return"
    /\ (ret.op = "discover" /\ ret.trace # << >> /\ ret.trace[Len(ret.trace)] = "set")
          => ret.outcome = "return" /\ ret.branch = "computed"

----------------------------------------------------------------------------
(* Properties of the engine *)

\* the caller asked for the cache
WantsCache(o) == o.cache = "True"

\* a step of discover
EngineStep == inv.pc # "idle" \/ inv'.pc # "idle" \/ ret'.op = "discover"

\* C8: a discover that asks for the cache and whose lookup hits returns the
\* cached results from its first step, having run no stage and written
\* nothing; a discover that does not ask for the cache makes no cache call and
\* leaves the cache directory as it was.
C8_HitReturnsCachedResult ==
    [][ /\ (inv.pc = "idle" /\ inv'.pc = "analyze" /\ WantsCache(inv'.options))
              => get(inv'.target_path, inv'.options).value = None
        /\ (ret'.op = "discover" /\ ret'.branch = "cached") =>
              /\ inv.pc = "idle"
              /\ WantsCache(ret'.options)
              /\ ret'.found.kind = "entry"
              /\ ret'.value = ret'.found.results
              /\ ret'.trace = <<"get">>
              /\ cache' = cache
        /\ (EngineStep /\ ~WantsCache(IF inv.pc = "idle" THEN
                                        (IF ret'.op = "discover" THEN ret'.options
                                         ELSE inv'.options)
                                      ELSE inv.options)) =>
              /\ cache' = cache
              /\ ret'.op = "discover" =>
                    \A i \in 1..Len(ret'.trace) : ret'.trace[i] \notin {"get", "set"}
      ]_vars

\* discover returned the results a direct set had stored
C8_Witness ==
    /\ ret.op = "discover" /\ ret.branch = "cached"
    /\ ret.value = R1
    /\ ret.trace = <<"get">>

\* C9 as stated: discover on a path that does not exist raises, whatever the
\* options and the cache hold, and before a stage has completed.
C9_MissingPathRaises ==
    (ret.op = "discover" /\ ~dirExists[resolve(ret.path)]) =>
        /\ ret.outcome = "raise"
        /\ \A i \in 1..Len(ret.trace) : ret.trace[i] \in {"get", "analyze"}

\* the results of one pipeline run: each part derived from the one before
Complete(r) ==
    /\ r.analysis # None /\ r.synthesis # None /\ r.validation # None
    /\ r.metadata # None
    /\ r.synthesis.from_analysis = r.analysis
    /\ r.validation.from_analysis = r.analysis
    /\ r.validation.from_synthesis = r.synthesis
    /\ r.metadata.target_path = r.analysis.target

\* C10: a step of discover changes the cache directory either by unlinking
\* the file its lookup read, or, as its last step and after the analyzer, the
\* synthesizer and the validator have returned in that order, by writing the
\* one file it addresses: a complete result of this invocation, or the remains
\* of a failed write.  A discover that raises writes nothing.
C10_OnlyCompleteResultsCached ==
    [][ (EngineStep /\ cache' # cache) =>
          \/ /\ inv.pc = "idle"
             /\ DOMAIN cache' = DOMAIN cache \ {Addr(inv'.target_path, inv'.options)}
             /\ \A k \in DOMAIN cache' : cache'[k] = cache[k]
          \/ /\ inv.pc = "package"
             /\ ret'.outcome = "return"
             /\ inv.trace \in { <<"analyze", "synthesize", "validate">>,
                                <<"get", "analyze", "synthesize", "validate">> }
             /\ LET k == Addr(inv.target_path, inv.options) IN
                /\ DOMAIN cache' = DOMAIN cache \cup {k}
                /\ \A j \in DOMAIN cache : j # k => cache'[j] = cache[j]
                /\ cache'[k].kind = "entry" =>
                      /\ cache'[k].results = ret'.value
                      /\ Complete(cache'[k].results)
                      /\ cache'[k].results.analysis = inv.analysis_data
                      /\ cache'[k].results.metadata.options = inv.options
      ]_vars

\* discover ran the pipeline and its result is in the cache
C10_Witness ==
    /\ ret.op = "discover" /\ ret.branch = "computed"
    /\ ret.trace = <<"get", "analyze", "synthesize", "validate", "set">>
    /\ Addr(ret.path, ret.options) \in DOMAIN cache
    /\ cache[Addr(ret.path, ret.options)].kind = "entry"
    /\ cache[Addr(ret.path, ret.options)].results = ret.value

----------------------------------------------------------------------------
(* The stages in detail.  A Python dict is a function whose domain is the
   keys it holds, a list is a sequence, None is the record None. *)

\* key in d
Has(d, k) == k \in DOMAIN d

\* d.get(k, default)
Get(d, k, default) == IF k \in DOMAIN d THEN d[k] ELSE default

\* the empty dict
EmptyDict == [k \in {} |-> 0]

\* x in list
In(x, list) == \E i \in DOMAIN list : list[i] = x

\* the d of D restricted to the keys K
Restrict(d, K) == [k \in K \cap DOMAIN d |-> d[k]]

\* DiscoveryValidator._validate_analysis
analysis_required_fields ==
    <<"structure", "dependencies", "languages", "frameworks", "patterns",
      "quality_metrics", "entry_points">>

_validate_analysis(analysis_data) ==
    LET missing   == SelectSeq(analysis_required_fields,
                               LAMBDA f : ~Has(analysis_data, f))
        structure == Get(analysis_data, "structure", EmptyDict)
        languages == Get(analysis_data, "languages", << >>)
        quality   == Get(analysis_data, "quality_metrics", EmptyDict)
    IN  [ errors   |-> [i \in 1..Len(missing) |->
                            "Missing analysis field: " \o missing[i]],
          warnings |->
              (IF Get(structure, "total_files", 0) = 0
                  THEN <<"No files found in analysis">> ELSE << >>)
              \o (IF languages = << >>
                  THEN <<"No programming languages detected">> ELSE << >>)
              \o (IF Get(quality, "total_lines_of_code", 0) = 0
                  THEN <<"No lines of code counted">> ELSE << >>) ]

\* DiscoveryValidator._validate_synthesis
synthesis_required_fields ==
    <<"insights", "recommendations", "architecture_summary",
      "quality_assessment", "technology_stack">>

\* a synthesis check that takes a missing score for a gap, not for an error
_validate_synthesis_score_warned(synthesis_data) ==
    LET missing == SelectSeq(synthesis_required_fields,
                             LAMBDA f : ~Has(synthesis_data, f))
        quality == Get(synthesis_data, "quality_assessment", EmptyDict)
    IN  [ errors   |-> [i \in 1..Len(missing) |->
                            "Missing synthesis field: " \o missing[i]],
          warnings |->
              (IF Get(synthesis_data, "insights", << >>) = << >>
                  THEN <<"No insights generated">> ELSE << >>)
              \o (IF Get(synthesis_data, "recommendations", << >>) = << >>
                  THEN <<"No recommendations generated">> ELSE << >>)
              \o (IF ~Has(quality, "overall_score")
                  THEN <<"Quality assessment missing overall score">> ELSE << >>) ]

_validate_synthesis(synthesis_data) ==
    LET missing == SelectSeq(synthesis_required_fields,
                             LAMBDA f : ~Has(synthesis_data, f))
        quality == Get(synthesis_data, "quality_assessment", EmptyDict)
    IN  [ errors   |->
              [i \in 1..Len(missing) |-> "Missing synthesis field: " \o missing[i]]
              \o (IF ~Has(quality, "overall_score")
                  THEN <<"Quality assessment missing overall score">> ELSE << >>),
          warnings |->
              (IF Get(synthesis_data, "insights", << >>) = << >>
                  THEN <<"No insights generated">> ELSE << >>)
              \o (IF Get(synthesis_data, "recommendations", << >>) = << >>
                  THEN <<"No recommendations generated">> ELSE << >>) ]

\* Python truthiness of a list or a dict
Truthy(v) == v # << >>

\* DiscoveryValidator._calculate_completeness.  No dict of the model holds
\* None for a score, so "get('overall_score') is not None" is "the key is there".
_calculate_completeness(analysis_data, synthesis_data) ==
    LET score ==
          (IF Get(Get(analysis_data, "structure", EmptyDict), "total_files", 0) > 0
              THEN 15 ELSE 0)
        + (IF Truthy(Get(analysis_data, "languages", << >>)) THEN 15 ELSE 0)
        + (IF Truthy(Get(analysis_data, "frameworks", << >>)) THEN 10 ELSE 0)
        + (IF Truthy(Get(analysis_data, "patterns", << >>)) THEN 10 ELSE 0)
        + (IF Get(Get(analysis_data, "quality_metrics", EmptyDict),
                  "total_lines_of_code", 0) > 0 THEN 10 ELSE 0)
        + (IF Truthy(Get(synthesis_data, "insights", << >>)) THEN 15 ELSE 0)
        + (IF Truthy(Get(synthesis_data, "recommendations", << >>)) THEN 15 ELSE 0)
        + (IF Has(Get(synthesis_data, "quality_assessment", EmptyDict),
                  "overall_score") THEN 10 ELSE 0)
    IN  IF score < 100 THEN score ELSE 100

\* a validation whose verdict looks at the analysis errors only
DiscoveryValidator_validate_analysis_only(analysis_data, synthesis_data) ==
    LET av == _validate_analysis(analysis_data)
        sv == _validate_synthesis(synthesis_data)
    IN  [ is_valid              |-> IF av.errors # << >> THEN "False" ELSE "True",
          completeness_score    |-> _calculate_completeness(analysis_data, synthesis_data),
          warnings              |-> av.warnings \o sv.warnings,
          errors                |-> av.errors \o sv.errors,
          missing_data          |-> << >>,
          analysis_validation   |-> av,
          synthesis_validation  |-> sv ]

\* DiscoveryValidator.validate, on the dicts themselves
DiscoveryValidator_validate(analysis_data, synthesis_data) ==
    LET av     == _validate_analysis(analysis_data)
        sv     == _validate_synthesis(synthesis_data)
        errors == av.errors \o sv.errors
    IN  [ is_valid              |-> IF errors # << >> THEN "False" ELSE "True",
          completeness_score    |-> _calculate_completeness(analysis_data, synthesis_data),
          warnings              |-> av.warnings \o sv.warnings,
          errors                |-> errors,
          missing_data          |-> << >>,
          analysis_validation   |-> av,
          synthesis_validation  |-> sv ]

----------------------------------------------------------------------------
(* DiscoverySynthesizer *)

\* any(x in list for x in S)
AnyIn(S, list) == \E i \in DOMAIN list : list[i] \in S

\* DiscoverySynthesizer._determine_project_type
_determine_project_type(analysis_data) ==
    LET frameworks   == analysis_data["frameworks"]
        patterns     == analysis_data["patterns"]
        entry_points == analysis_data["entry_points"]
    IN  IF AnyIn({"django", "flask", "fastapi", "express", "koa"}, frameworks)
            THEN "web_application"
        ELSE IF AnyIn({"react", "vue", "angular", "nextjs", "nuxt"}, frameworks)
            THEN "web_application"
        ELSE IF AnyIn({"pandas", "numpy", "scikit-learn", "tensorflow", "pytorch"},
                      frameworks)
            THEN "data_science"
        ELSE IF In("jupyter", frameworks) \/ In("notebooks", patterns)
            THEN "data_science"
        ELSE IF AnyIn({"click", "argparse", "typer"}, frameworks) /\ Truthy(entry_points)
            THEN "cli_application"
        ELSE IF In("cli_application", patterns)
            THEN "cli_application"
        ELSE IF AnyIn({"react-native", "flutter", "xamarin"}, frameworks)
            THEN "mobile_application"
        ELSE "library"

\* a score whose bonus for the cli_application tag is less than the library
\* bonuses it takes the place of
RawScore_small_cli_bonus(analysis_data) ==
    LET quality_metrics == analysis_data["quality_metrics"]
        patterns        == analysis_data["patterns"]
        frameworks      == analysis_data["frameworks"]
        total_files     == analysis_data["structure"]["total_files"]
        project_type    == _determine_project_type(analysis_data)
        P(t, n)         == IF In(t, patterns) THEN n ELSE 0
        F(S, n)         == IF AnyIn(S, frameworks) THEN n ELSE 0
        \* test_file_count / max(1, total_files) > 0.1
        ratio_high      == 10 * quality_metrics["test_file_count"]
                              > (IF total_files > 1 THEN total_files ELSE 1)
    IN  40
        + P("has_tests", 15 + (IF ratio_high THEN 8 ELSE 0))
        + P("documented", 12)
        + P("documentation_system", 8)
        + (CASE project_type = "cli_application" ->
                    P("cli_application", 8) + P("rich_output", 5)
                    + P("plugin_architecture", 8) + P("template_system", 3)
                    + P("hybrid_configuration", 3) + P("cross_platform", 3)
             [] project_type = "web_application" ->
                    F({"django", "flask", "fastapi"}, 8)
                    + F({"react", "vue", "angular"}, 8)
                    + P("api_service", 5) + P("mvc", 5)
             [] project_type = "data_science" ->
                    F({"pandas", "numpy", "scikit-learn"}, 8)
                    + F({"jupyter"}, 5) + P("notebooks", 3)
             [] project_type = "library" ->
                    P("documented", 5) + P("has_tests", 5) + P("versioned", 3)
             [] OTHER -> 0)
        + P("containerized", 8)
        + (IF AnyIn({"mvc", "api_service", "microservices"}, patterns) THEN 8 ELSE 0)
        - (IF total_files > 1000 THEN 5 ELSE IF total_files < 5 THEN 10 ELSE 0)

\* the score _assess_quality reaches before it caps it
RawScore(analysis_data) ==
    LET quality_metrics == analysis_data["quality_metrics"]
        patterns        == analysis_data["patterns"]
        frameworks      == analysis_data["frameworks"]
        total_files     == analysis_data["structure"]["total_files"]
        project_type    == _determine_project_type(analysis_data)
        P(t, n)         == IF In(t, patterns) THEN n ELSE 0
        F(S, n)         == IF AnyIn(S, frameworks) THEN n ELSE 0
        \* test_file_count / max(1, total_files) > 0.1
        ratio_high      == 10 * quality_metrics["test_file_count"]
                              > (IF total_files > 1 THEN total_files ELSE 1)
    IN  40
        + P("has_tests", 15 + (IF ratio_high THEN 8 ELSE 0))
        + P("documented", 12)
        + P("documentation_system", 8)
        + (CASE project_type = "cli_application" ->
                    P("cli_application", 10) + P("rich_output", 5)
                    + P("plugin_architecture", 8) + P("template_system", 3)
                    + P("hybrid_configuration", 3) + P("cross_platform", 3)
             [] project_type = "web_application" ->
                    F({"django", "flask", "fastapi"}, 8)
                    + F({"react", "vue", "angular"}, 8)
                    + P("api_service", 5) + P("mvc", 5)
             [] project_type = "data_science" ->
                    F({"pandas", "numpy", "scikit-learn"}, 8)
                    + F({"jupyter"}, 5) + P("notebooks", 3)
             [] project_type = "library" ->
                    P("documented", 5) + P("has_tests", 5) + P("versioned", 3)
             [] OTHER -> 0)
        + P("containerized", 8)
        + (IF AnyIn({"mvc", "api_service", "microservices"}, patterns) THEN 8 ELSE 0)
        - (IF total_files > 1000 THEN 5 ELSE IF total_files < 5 THEN 10 ELSE 0)

\* a cap at the top of the scale
CapScore_at_100(score) ==
    IF score < 0 THEN 0 ELSE IF score > 100 THEN 100 ELSE score

\* max(0, min(95, score))
CapScore(score) ==
    IF score < 0 THEN 0 ELSE IF score > 95 THEN 95 ELSE score

\* DiscoverySynthesizer._assess_quality
_assess_quality(analysis_data) ==
    LET quality_metrics == analysis_data["quality_metrics"]
        patterns        == analysis_data["patterns"]
        score           == CapScore(RawScore(analysis_data))
        Bool(b)         == IF b THEN "True" ELSE "False"
    IN  [ overall_score     |-> score,
          has_tests         |-> Bool(In("has_tests", patterns)),
          has_documentation |-> Bool(In("documented", patterns)),
          is_containerized  |-> Bool(In("containerized", patterns)),
          test_file_count   |-> quality_metrics["test_file_count"],
          lines_of_code     |-> quality_metrics["total_lines_of_code"],
          assessment        |-> IF score >= 80 THEN "excellent"
                                ELSE IF score >= 60 THEN "good"
                                ELSE "needs_improvement" ]

\* a summary whose type is left as the first chain (lines 178-188) set it
_summarize_architecture_first_chain(analysis_data) ==
    LET patterns     == analysis_data["patterns"]
        frameworks   == analysis_data["frameworks"]
        project_type == _determine_project_type(analysis_data)
        app_type ==
            IF project_type = "cli_application"
                THEN IF In("plugin_architecture", patterns)
                        THEN "cli_framework" ELSE "cli_application"
            ELSE IF project_type = "web_application"
                THEN IF AnyIn({"django", "fastapi", "flask"}, frameworks)
                        THEN "web_backend"
                     ELSE IF AnyIn({"nextjs", "react", "vue", "angular"}, frameworks)
                        THEN "web_frontend"
                     ELSE "web_application"
            ELSE IF project_type = "data_science" THEN "data_analysis"
            ELSE IF project_type = "mobile_application" THEN "mobile_app"
            ELSE IF Truthy(analysis_data["entry_points"]) THEN "application"
            ELSE "library"
        architecture_type ==
            IF In("monorepo", patterns) THEN "monorepo"
            ELSE IF In("microservices", patterns) THEN "microservices"
            ELSE IF In("api_service", patterns) THEN "api_service"
            ELSE IF In("mvc", patterns) \/ In("mvc_like", patterns) THEN "mvc"
            ELSE "standard"
    IN  [ type             |-> architecture_type,
          application_type |-> app_type,
          patterns         |-> patterns,
          complexity       |-> IF Len(patterns) > 3 THEN "high"
                               ELSE IF Len(patterns) > 1 THEN "medium" ELSE "low" ]

\* DiscoverySynthesizer._summarize_architecture
_summarize_architecture(analysis_data) ==
    LET patterns     == analysis_data["patterns"]
        frameworks   == analysis_data["frameworks"]
        project_type == _determine_project_type(analysis_data)
        app_type ==
            IF project_type = "cli_application"
                THEN IF In("plugin_architecture", patterns)
                        THEN "cli_framework" ELSE "cli_application"
            ELSE IF project_type = "web_application"
                THEN IF AnyIn({"django", "fastapi", "flask"}, frameworks)
                        THEN "web_backend"
                     ELSE IF AnyIn({"nextjs", "react", "vue", "angular"}, frameworks)
                        THEN "web_frontend"
                     ELSE "web_application"
            ELSE IF project_type = "data_science" THEN "data_analysis"
            ELSE IF project_type = "mobile_application" THEN "mobile_app"
            ELSE IF Truthy(analysis_data["entry_points"]) THEN "application"
            ELSE "library"
        \* the second chain (lines 216-231) overwrites the first (lines 178-188)
        architecture_type ==
            IF In("cli_application", patterns) /\ In("plugin_architecture", patterns)
                THEN "cli_development_framework"
            ELSE IF In("cli_application", patterns) THEN "cli_application"
            ELSE IF In("plugin_architecture", patterns) THEN "plugin_based"
            ELSE IF In("microservices", patterns) THEN "microservices"
            ELSE IF In("monorepo", patterns) THEN "monorepo"
            ELSE IF In("api_service", patterns) THEN "api_service"
            ELSE IF In("mvc", patterns) \/ In("mvc_like", patterns) THEN "mvc"
            ELSE "standard"
    IN  [ type             |-> architecture_type,
          application_type |-> app_type,
          patterns         |-> patterns,
          complexity       |-> IF Len(patterns) > 3 THEN "high"
                               ELSE IF Len(patterns) > 1 THEN "medium" ELSE "low" ]

\* DiscoverySynthesizer._determine_main_language
_determine_main_language(analysis_data) ==
    LET languages  == analysis_data["languages"]
        frameworks == analysis_data["frameworks"]
    IN  IF AnyIn({"django", "fastapi", "flask", "pytest"}, frameworks) THEN "python"
        ELSE IF AnyIn({"nextjs", "react", "vue", "angular", "express", "jest"}, frameworks)
            THEN IF In("javascript", languages) THEN "javascript" ELSE "typescript"
        ELSE IF Truthy(languages) THEN languages[1] ELSE "unknown"

\* DiscoverySynthesizer._determine_stack_type
_determine_stack_type(analysis_data) ==
    LET frameworks   == analysis_data["frameworks"]
        languages    == analysis_data["languages"]
        patterns     == analysis_data["patterns"]
        has_backend  == AnyIn({"django", "fastapi", "flask", "express"}, frameworks)
        has_frontend == AnyIn({"nextjs", "react", "vue", "angular"}, frameworks)
    IN  IF In("cli_application", patterns) /\ In("plugin_architecture", patterns)
            THEN "cli_development_framework"
        ELSE IF In("cli_application", patterns) THEN "cli_application"
        ELSE IF has_backend /\ has_frontend THEN "full_stack"
        ELSE IF has_backend THEN "backend"
        ELSE IF has_frontend THEN "frontend"
        ELSE IF In("python", languages) THEN "python_application"
        ELSE IF In("javascript", languages) \/ In("typescript", languages)
            THEN "javascript_application"
        ELSE "unknown"

\* DiscoverySynthesizer._summarize_tech_stack
_summarize_tech_stack(analysis_data) ==
    [ languages     |-> analysis_data["languages"],
      frameworks    |-> analysis_data["frameworks"],
      main_language |-> _determine_main_language(analysis_data),
      stack_type    |-> _determine_stack_type(analysis_data),
      entry_points  |-> analysis_data["entry_points"] ]

\* the list [x] when c holds, else []
When(c, x) == IF c THEN <<x>> ELSE << >>

\* ', '.join(list)
RECURSIVE Join(_)
Join(list) ==
    IF list = << >> THEN ""
    ELSE IF Len(list) = 1 THEN list[1]
    ELSE list[1] \o ", " \o Join(Tail(list))

\* DiscoverySynthesizer._generate_insights
_generate_insights(analysis_data) ==
    LET total_files  == analysis_data["structure"]["total_files"]
        languages    == analysis_data["languages"]
        frameworks   == analysis_data["frameworks"]
        patterns     == analysis_data["patterns"]
        project_type == _determine_project_type(analysis_data)
        size ==
            IF total_files > 1000
                THEN <<"Large codebase with " \o ToString(total_files)
                         \o " files - consider modularization">>
            ELSE When(total_files < 10, "Small project - good for rapid development")
        diversity ==
            IF Len(languages) > 3
                THEN <<"Multi-language project using " \o Join(languages)>>
            ELSE When(In("python", languages) /\ In("javascript", languages),
                      "Full-stack project with Python backend and JavaScript frontend")
        cli ==
            (IF In("click", frameworks) /\ In("rich", frameworks)
                THEN <<"Professional CLI development framework with Click and Rich console interface">>
             ELSE IF In("click", frameworks)
                THEN <<"Click-based CLI application with structured command interface">>
             ELSE <<"Command-line application with entry points defined">>)
            \o When(In("plugin_architecture", patterns),
                    "Modular plugin architecture - excellent for extensibility and maintainability")
            \o When(In("template_system", patterns),
                    "Template-driven content generation system - professional development approach")
            \o When(In("hybrid_configuration", patterns),
                    "Hybrid configuration system with multi-layer environment support")
            \o When(In("cross_platform", patterns),
                    "Cross-platform installer system - Windows, macOS, and Linux support")
        web ==
            (IF In("django", frameworks)
                THEN <<"Django web application - follows MVT pattern">>
             ELSE IF In("fastapi", frameworks)
                THEN <<"FastAPI application - modern async API framework">>
             ELSE IF In("nextjs", frameworks)
                THEN <<"Next.js application - full-stack React framework">>
             ELSE IF In("react", frameworks)
                THEN <<"React application - component-based frontend framework">>
             ELSE When(In("vue", frameworks),
                       "Vue.js application - progressive frontend framework"))
            \o When(In("api_service", patterns),
                    "Service-oriented architecture with API layer")
        data ==
            IF In("pandas", frameworks) /\ In("numpy", frameworks)
                THEN <<"Data analysis project with pandas and numpy">>
            ELSE IF In("jupyter", frameworks)
                THEN <<"Jupyter notebook-based data science project">>
            ELSE When(In("scikit-learn", frameworks),
                      "Machine learning project with scikit-learn")
        library ==
            <<"Python library suitable for distribution">>
            \o When(In("documented", patterns),
                    "Well-documented library with comprehensive API reference")
            \o When(In("has_tests", patterns),
                    "Tested library with good test coverage")
        by_type ==
            CASE project_type = "cli_application" -> cli
              [] project_type = "web_application" -> web
              [] project_type = "data_science"    -> data
              [] project_type = "library"         -> library
              [] OTHER                            -> << >>
        additional ==
            IF project_type # "web_application" /\ In("django", frameworks)
                THEN <<"Django web application - follows MVT pattern">>
            ELSE IF project_type # "web_application" /\ In("fastapi", frameworks)
                THEN <<"FastAPI application - modern async API framework">>
            ELSE When(In("nextjs", frameworks),
                      "Next.js application - full-stack React framework")
        testing ==
            IF In("has_tests", patterns)
                THEN <<"Well-tested project with "
                         \o ToString(analysis_data["quality_metrics"]["test_file_count"])
                         \o " test files">>
            ELSE <<"No testing structure detected - consider adding tests">>
        architecture ==
            When(In("api_service", patterns),
                 "Service-oriented architecture with API layer")
            \o When(In("microservices", patterns),
                    "Microservices architecture - distributed system design")
            \o When(In("monorepo", patterns),
                    "Monorepo structure - multiple packages in single repository")
    IN  size \o diversity \o by_type
        \o When(In("documentation_system", patterns),
                "Comprehensive documentation system with multiple specialized guides")
        \o additional \o testing \o architecture

\* DiscoverySynthesizer._generate_recommendations
_generate_recommendations(analysis_data) ==
    LET patterns    == analysis_data["patterns"]
        frameworks  == analysis_data["frameworks"]
        languages   == analysis_data["languages"]
        quality     == analysis_data["quality_metrics"]
        python_deps == analysis_data["dependencies"]["python"]
    IN  (IF ~In("has_tests", patterns)
            THEN When(In("python", languages) /\ ~In("pytest", frameworks),
                      "Add pytest for Python testing")
                 \o When((In("javascript", languages) \/ In("typescript", languages))
                            /\ ~In("jest", frameworks) /\ ~In("vitest", frameworks),
                         "Add Jest or Vitest for JavaScript testing")
            ELSE << >>)
        \o When(~In("documented", patterns),
                "Add documentation directory and README files")
        \o When(~In("containerized", patterns)
                   /\ AnyIn({"django", "fastapi", "express", "nextjs"}, frameworks),
                "Consider adding Docker for containerization")
        \o When(quality["total_lines_of_code"] > 10000 /\ quality["test_file_count"] = 0,
                "Large codebase without tests - prioritize test coverage")
        \o When(Truthy(python_deps["requirements_txt"])
                   /\ ~Truthy(python_deps["pyproject_toml"]),
                "Consider migrating to pyproject.toml for modern Python packaging")

\* the keys synthesize reads with [] : a dict without one raises KeyError
SynthesizeRaises(analysis_data) ==
    \/ \E k \in {"structure", "languages", "frameworks", "patterns",
                 "quality_metrics", "entry_points", "dependencies"} :
          ~Has(analysis_data, k)
    \/ ~Has(analysis_data["structure"], "total_files")
    \/ ~Has(analysis_data["quality_metrics"], "test_file_count")
    \/ ~Has(analysis_data["quality_metrics"], "total_lines_of_code")
    \/ ~Has(analysis_data["dependencies"], "python")

\* DiscoverySynthesizer.synthesize, on the dict itself
DiscoverySynthesizer_synthesize_no_stack(analysis_data) ==
    [ insights             |-> _generate_insights(analysis_data),
      recommendations      |-> _generate_recommendations(analysis_data),
      architecture_summary |-> _summarize_architecture(analysis_data),
      quality_assessment   |-> _assess_quality(analysis_data) ]

DiscoverySynthesizer_synthesize(analysis_data) ==
    [ insights             |-> _generate_insights(analysis_data),
      recommendations      |-> _generate_recommendations(analysis_data),
      architecture_summary |-> _summarize_architecture(analysis_data),
      quality_assessment   |-> _assess_quality(analysis_data),
      technology_stack     |-> _summarize_tech_stack(analysis_data) ]

----------------------------------------------------------------------------
(* The synthesizer and the validator called on dicts: the facts of an analysis
   as far as the two stages read them, and dicts with keys left out *)

\* how many required keys an input dict may lack
MaxMissing == 2

\* the order CodeAnalyzer._detect_patterns appends its tags in
PatternOrder ==
    <<"api_service", "mvc", "microservices", "has_tests", "documented",
      "cli_application", "plugin_architecture", "documentation_system",
      "containerized">>

PatternLists ==
    { SelectSeq(PatternOrder, LAMBDA t : t \in S) :
        S \in SUBSET {"api_service", "microservices", "has_tests", "documented",
                      "cli_application", "plugin_architecture",
                      "documentation_system", "containerized"} }

\* languages, frameworks, entry points and requirements of a few kinds of project
Profiles ==
    { [languages |-> << >>, frameworks |-> << >>, entry_points |-> << >>,
       requirements_txt |-> << >>],
      [languages |-> <<"python">>, frameworks |-> << >>, entry_points |-> << >>,
       requirements_txt |-> <<"requests">>],
      [languages |-> <<"python">>, frameworks |-> <<"click", "rich">>,
       entry_points |-> <<"main.py">>, requirements_txt |-> <<"click", "rich">>],
      [languages |-> <<"python">>, frameworks |-> <<"django">>,
       entry_points |-> <<"manage.py">>, requirements_txt |-> <<"django">>],
      [languages |-> <<"javascript", "json", "python", "typescript">>,
       frameworks |-> <<"nextjs", "react">>, entry_points |-> <<"npm run dev">>,
       requirements_txt |-> << >>],
      [languages |-> <<"python">>, frameworks |-> <<"pandas">>,
       entry_points |-> << >>, requirements_txt |-> <<"pandas">>] }

\* total_files, test_file_count, total_lines_of_code
Sizes ==
    { [total_files |-> 0, test_file_count |-> 0, total_lines_of_code |-> 0],
      [total_files |-> 4, test_file_count |-> 1, total_lines_of_code |-> 10],
      [total_files |-> 20, test_file_count |-> 0, total_lines_of_code |-> 20000],
      [total_files |-> 1001, test_file_count |-> 200, total_lines_of_code |-> 0] }

Facts(profile, size, patterns) ==
    [ structure       |-> [total_files |-> size.total_files],
      dependencies    |-> [python |-> [requirements_txt |-> profile.requirements_txt,
                                       pyproject_toml   |-> EmptyDict]],
      languages       |-> profile.languages,
      frameworks      |-> profile.frameworks,
      patterns        |-> patterns,
      quality_metrics |-> [total_lines_of_code |-> size.total_lines_of_code,
                           test_file_count     |-> size.test_file_count],
      entry_points    |-> profile.entry_points ]

\* the AnalysisFacts the stages are run on
AllFacts == { Facts(p, z, t) : p \in Profiles, z \in Sizes, t \in PatternLists }

\* the dicts of D with at most MaxMissing of the keys K left out
Partial(D, K) ==
    { Restrict(d, K \ M) : d \in D, M \in {X \in SUBSET K : Cardinality(X) <= MaxMissing} }

Range(seq) == {seq[i] : i \in DOMAIN seq}

\* analysis dicts: with and without files, with and without languages
PartialAnalyses ==
    Partial({ Facts(p, z, << >>) :
                p \in {q \in Profiles : q.frameworks = << >>},
                z \in {y \in Sizes : y.total_files < 10} },
            Range(analysis_required_fields))

\* synthesis dicts: with and without insights, recommendations and a score
PartialSyntheses ==
    Partial({ [ insights             |-> i,
                recommendations      |-> r,
                architecture_summary |-> [type |-> "standard"],
                quality_assessment   |-> q,
                technology_stack     |-> [stack_type |-> "unknown"] ] :
                i \in {<< >>, <<"Small project - good for rapid development">>},
                r \in {<< >>, <<"Add pytest for Python testing">>},
                q \in {EmptyDict, [overall_score |-> 30]} },
            Range(synthesis_required_fields))

StageInputs ==
    { [analysis_data |-> a, synthesis_data |-> None] : a \in AllFacts \cup PartialAnalyses }
    \cup { [analysis_data |-> a, synthesis_data |-> y] :
             a \in PartialAnalyses, y \in PartialSyntheses }

StageInit ==
    /\ now = 0
    /\ dirExists = [d \in Dirs |-> TRUE]
    /\ files = [d \in Dirs |-> NoFiles]
    /\ cache = [k \in {} |-> Corrupt]
    /\ scope = CHOOSE u \in Scopes : ~u.moving
    /\ ret = NoRet
    /\ \E x \in StageInputs :
          inv = [Idle EXCEPT !.pc = "stage",
                             !.analysis_data = x.analysis_data,
                             !.synthesis_data = x.synthesis_data]

\* engine.py line 74, on its own
StageSynthesize ==
    /\ inv.pc = "stage"
    /\ inv.synthesis_data = None
    /\ IF SynthesizeRaises(inv.analysis_data)
          THEN /\ inv' = [inv EXCEPT !.pc = "done"]
               /\ ret' = Raised("synthesize", NoPath, O0, <<"synthesize">>)
          ELSE /\ inv' = [inv EXCEPT
                            !.synthesis_data =
                                DiscoverySynthesizer_synthesize(inv.analysis_data),
                            !.trace = @ \o <<"synthesize">>]
               /\ ret' = ret
    /\ UNCHANGED <<now, dirExists, files, cache, scope>>

\* engine.py line 78, on its own
StageValidate ==
    /\ inv.pc = "stage"
    /\ inv.synthesis_data # None
    /\ LET v == DiscoveryValidator_validate(inv.analysis_data, inv.synthesis_data) IN
       /\ inv' = [inv EXCEPT !.pc = "done", !.validation_data = v,
                             !.trace = @ \o <<"validate">>]
       /\ ret' = Returned("validate", NoPath, O0, v, "none", inv.trace \o <<"validate">>,
                          None)
    /\ UNCHANGED <<now, dirExists, files, cache, scope>>

StageNext == StageSynthesize \/ StageValidate

StageSpec == StageInit /\ [][StageNext]_vars

----------------------------------------------------------------------------
(* Claims about the validator and the synthesizer *)

\* validate has returned its ValidationResult
ValidateReturned == ret.op = "validate" /\ ret.outcome = "return"

\* C11: for every pair of dicts, keys missing or not, the result of validate
\* has is_valid true exactly when its errors list is empty.
C11_ValidIffNoErrors ==
    ValidateReturned =>
        ((ret.value.is_valid = "True") <=> (ret.value.errors = << >>))

\* validate found nothing wrong with the analysis and an error in the synthesis
C11_Witness ==
    /\ ValidateReturned
    /\ ret.value.analysis_validation.errors = << >>
    /\ ret.value.synthesis_validation.errors # << >>
    /\ ret.value.is_valid = "False"

\* synthesize has returned and its result is in synthesis_data
Synthesized == In("synthesize", inv.trace) /\ inv.synthesis_data # None

\* C12: the overall score of every synthesis lies in 0..95; the completeness
\* score of every validation lies in 0..100 and is what the analysis alone
\* contributes, at most 60, plus what the synthesis alone contributes, at
\* most 40.
C12_ScoresBounded ==
    /\ Synthesized =>
          /\ inv.synthesis_data["quality_assessment"].overall_score >= 0
          /\ inv.synthesis_data["quality_assessment"].overall_score <= 95
    /\ ValidateReturned =>
          LET fromAnalysis  == _calculate_completeness(inv.analysis_data, EmptyDict)
              fromSynthesis == _calculate_completeness(EmptyDict, inv.synthesis_data)
          IN  /\ ret.value.completeness_score >= 0
              /\ ret.value.completeness_score <= 100
              /\ ret.value.completeness_score = fromAnalysis + fromSynthesis
              /\ fromAnalysis <= 60
              /\ fromSynthesis <= 40

\* facts whose bonuses add up to more than the cap, synthesized and validated
\* with every signal present
C12_Witness ==
    /\ Synthesized /\ ValidateReturned
    /\ RawScore(inv.analysis_data) > 95
    /\ inv.synthesis_data["quality_assessment"].overall_score = 95
    /\ ret.value.completeness_score = 100

\* every required key of both dicts is there
AllRequired(a, y) ==
    /\ \A i \in DOMAIN analysis_required_fields : Has(a, analysis_required_fields[i])
    /\ \A i \in DOMAIN synthesis_required_fields : Has(y, synthesis_required_fields[i])

NoScore(y) == ~Has(Get(y, "quality_assessment", EmptyDict), "overall_score")

\* C13 as stated: with every required field present, no gap (zero files, zero
\* languages, no insights, no recommendations, no overall score) adds an error
\* or makes is_valid false.
C13_GapsNeverInvalidate ==
    (ValidateReturned /\ AllRequired(inv.analysis_data, inv.synthesis_data)) =>
        /\ ret.value.errors = << >>
        /\ ret.value.is_valid = "True"

\* C13: with every required field present, zero files, zero languages, an empty
\* insights list and an empty recommendations list each add their warning and
\* nothing else; the result is invalid exactly when the quality assessment has
\* no overall score, and that is then its only error.
C13_GapsWarnExceptScore ==
    (ValidateReturned /\ AllRequired(inv.analysis_data, inv.synthesis_data)) =>
        LET a == inv.analysis_data
            y == inv.synthesis_data
            w == ret.value.warnings
        IN  /\ In("No files found in analysis", w)
                 <=> (Get(a["structure"], "total_files", 0) = 0)
            /\ In("No programming languages detected", w) <=> (a["languages"] = << >>)
            /\ In("No insights generated", w) <=> (y["insights"] = << >>)
            /\ In("No recommendations generated", w) <=> (y["recommendations"] = << >>)
            /\ ret.value.errors =
                  When(NoScore(y), "Quality assessment missing overall score")
            /\ (ret.value.is_valid = "True") <=> ~NoScore(y)

\* all four list gaps at once, a score present: four warnings, still valid
C13_Witness ==
    /\ ValidateReturned /\ AllRequired(inv.analysis_data, inv.synthesis_data)
    /\ inv.analysis_data["structure"]["total_files"] = 0
    /\ inv.analysis_data["languages"] = << >>
    /\ inv.synthesis_data["insights"] = << >>
    /\ inv.synthesis_data["recommendations"] = << >>
    /\ ~NoScore(inv.synthesis_data)
    /\ ret.value.is_valid = "True"
    /\ Len(ret.value.warnings) >= 4

----------------------------------------------------------------------------
(* CodeAnalyzer: paths are strings, a tree is what the filesystem lists *)

\* pat in s
Contains(s, pat) ==
    \E i \in 1..(Len(s) - Len(pat) + 1) : SubSeq(s, i, i + Len(pat) - 1) = pat

\* s.startswith(pat)
StartsWith(s, pat) == Len(pat) <= Len(s) /\ SubSeq(s, 1, Len(pat)) = pat

UpperCase == "ABCDEFGHIJKLMNOPQRSTUVWXYZ"
LowerCase == "abcdefghijklmnopqrstuvwxyz"

\* the lower-case letter of each upper-case one
LowerOf ==
    [c \in {SubSeq(UpperCase, i, i) : i \in 1..26} |->
        LET i == CHOOSE j \in 1..26 : SubSeq(UpperCase, j, j) = c
        IN  SubSeq(LowerCase, i, i)]

\* str.lower, from the first upper-case letter on
RECURSIVE LowerFrom(_, _)
LowerFrom(s, i) ==
    IF i > Len(s) THEN ""
    ELSE LET c == SubSeq(s, i, i)
         IN  (IF c \in DOMAIN LowerOf THEN LowerOf[c] ELSE c) \o LowerFrom(s, i + 1)

Lower(s) ==
    LET upper == {i \in 1..Len(s) : SubSeq(s, i, i) \in DOMAIN LowerOf}
    IN  IF upper = {} THEN s
        ELSE LET first == CHOOSE i \in upper : \A j \in upper : i <= j
             IN  SubSeq(s, 1, first - 1) \o LowerFrom(s, first)

\* the index of the last occurrence of the character c in s, 0 when there is none
LastIndex(s, c) ==
    LET at == {i \in 1..Len(s) : SubSeq(s, i, i) = c}
    IN  IF at = {} THEN 0 ELSE CHOOSE i \in at : \A j \in at : j <= i

\* Path.name
Name(path) == SubSeq(path, LastIndex(path, "/") + 1, Len(path))

\* Path.suffix: the last dot of the name and what follows, unless the dot
\* starts or ends the name
Suffix(path) ==
    LET name == Name(path)
        i    == LastIndex(name, ".")
    IN  IF i > 1 /\ i < Len(name) THEN SubSeq(name, i, Len(name)) ELSE ""

\* target_path / rel
Under(tp, rel) == tp \o "/" \o rel

\* CodeAnalyzer._should_ignore_file: the patterns are searched as substrings
\* of the lowered path, the asterisks included
ignore_patterns ==
    <<".git/", "node_modules/", "__pycache__/", ".pytest_cache/",
      "venv/", "env/", ".env/", "build/", "dist/", ".next/",
      ".DS_Store", "*.pyc", "*.pyo", "*.pyd", "*.so", "*.egg-info/">>

ignore_patterns_lower == [i \in DOMAIN ignore_patterns |-> Lower(ignore_patterns[i])]

_should_ignore_file(file_path) ==
    LET file_str == Lower(file_path)
    IN  \E i \in DOMAIN ignore_patterns_lower : Contains(file_str, ignore_patterns_lower[i])

\* CodeAnalyzer._should_ignore_dir
ignore_dirs ==
    {".git", "node_modules", "__pycache__", ".pytest_cache",
     "venv", "env", ".env", "build", "dist", ".next",
     ".vscode", ".idea", "htmlcov"}

_should_ignore_dir(dir_path) == Lower(Name(dir_path)) \in ignore_dirs

\* sorted(list, key=size, reverse=True): stable, so entries of equal size keep
\* the order they were appended in
RECURSIVE SortedBySizeDesc(_)
SortedBySizeDesc(list) ==
    IF list = << >> THEN << >>
    ELSE LET rest == SortedBySizeDesc(SubSeq(list, 1, Len(list) - 1))
             x    == list[Len(list)]
             k    == Cardinality({i \in DOMAIN rest : rest[i].size >= x.size})
         IN  SubSeq(rest, 1, k) \o <<x>> \o SubSeq(rest, k + 1, Len(rest))

\* list[:n]
Take(list, n) == SubSeq(list, 1, IF Len(list) < n THEN Len(list) ELSE n)

----------------------------------------------------------------------------
(* The trees the analyzer is run on.  An item is an entry the walk meets:
   its path relative to the target, its kind, its size, the number of its
   non-blank lines, what ast.parse finds in it, and whether a stat of it is
   refused (its directory cannot be searched). *)

\* how many files src/ holds at most
MaxSrcFiles == 9

NoAst == [kind |-> "none"]
BadAst == [kind |-> "invalid"]

\* the nodes ast.walk meets: if, while, for and handler counts, the operand
\* counts of the boolean operations, the comprehension count
Ast(ifs, whiles, fors, handlers, boolops, comps) ==
    [ kind |-> "module", ifs |-> ifs, whiles |-> whiles, fors |-> fors,
      handlers |-> handlers, boolops |-> boolops, comps |-> comps ]

FileItem(path, size, lines, ast, denied) ==
    [ path |-> path, kind |-> "file", size |-> size, lines |-> lines, ast |-> ast,
      denied |-> denied ]

DirItem(path) ==
    [ path |-> path, kind |-> "dir", size |-> 0, lines |-> 0, ast |-> NoAst,
      denied |-> FALSE ]

\* the size of the n-th file of a tree
SizeProfiles == {"equal", "distinct", "pairs"}

SizeOf(profile, n) ==
    CASE profile = "equal"    -> 7
      [] profile = "distinct" -> n
      [] profile = "pairs"    -> (n + 1) \div 2

\* the manifests a tree may hold, one at a time, with what a parser makes of them
Manifests ==
    { [name |-> "none", kind |-> "none"],
      [name |-> "requirements.txt", kind |-> "text",
       text |-> <<"# runtime", "click>=8.0", "rich">>],
      [name |-> "pyproject.toml", kind |-> "invalid"],
      [name |-> "pyproject.toml", kind |-> "toml",
       dependencies |-> <<"click>=8.0">>,
       scripts |-> <<[name |-> "nexus", path |-> "nexus.cli:main"]>>],
      [name |-> "package.json", kind |-> "invalid"],
      [name |-> "package.json", kind |-> "json",
       dependencies |-> <<"react">>, devDependencies |-> <<"jest">>,
       scripts |-> <<"dev", "test">>] }

Reverse(list) == [i \in 1..Len(list) |-> list[Len(list) + 1 - i]]

\* the entries of the target directory, by name
RootItems(k, profile, manifest, locked) ==
    <<FileItem("README.md", SizeOf(profile, 1), 3, NoAst, FALSE),
      DirItem("__pycache__"),
      DirItem("locked"),
      FileItem("main.py", SizeOf(profile, 2), 5, Ast(1, 0, 1, 0, << >>, 0), FALSE)>>
    \o When(manifest.name # "none",
            FileItem(manifest.name, SizeOf(profile, 5), 2, NoAst, FALSE))
    \o When(k > 0, DirItem("src"))

\* the entries of its subdirectories, by name
SubItems(k, profile, locked) ==
    <<FileItem("__pycache__/main.pyc", SizeOf(profile, 4), 0, NoAst, FALSE),
      FileItem("locked/secret.py", SizeOf(profile, 3), 1, BadAst, locked)>>
    \o [i \in 1..k |->
          FileItem("src/m" \o ToString(i) \o ".py", SizeOf(profile, 5 + i), i,
                   Ast(0, 0, 0, 0, << >>, 0), FALSE)]

\* what rglob('*') yields: the entries of the target, then those of its
\* subdirectories, each directory in the order the filesystem lists it
Listing(k, profile, manifest, locked, order) ==
    IF order = "by_name"
        THEN RootItems(k, profile, manifest, locked) \o SubItems(k, profile, locked)
        ELSE Reverse(RootItems(k, profile, manifest, locked))
             \o Reverse(SubItems(k, profile, locked))

\* a tree and the installation that walks it: listable says whether the
\* target directory can be read, toml whether the toml package is installed,
\* strict whether is_file() raises when a stat is refused
Tree(listing, manifest, listable, toml, strict) ==
    [ listing |-> listing, manifest |-> manifest, listable |-> listable,
      toml |-> toml, strict |-> strict ]

NoManifest == CHOOSE m \in Manifests : m.name = "none"

\* the directories and marker files of the target that the pattern heuristics
\* look for, a few ways
Layouts ==
    { [dirs |-> << >>, files |-> << >>],
      [dirs  |-> <<"api", "controllers", "models", "packages", "services", "tests",
                   "views">>,
       files |-> <<"Dockerfile">>],
      [dirs  |-> <<"models", "nexus_docs", "plugins">>,
       files |-> <<"config.yaml", "install.sh">>],
      [dirs  |-> <<"Docs", "auth_service", "user_service">>,
       files |-> <<".env", "docker-compose.yml">>] }

\* a project with a repository, a build directory and build products lying
\* beside the sources: its entries, then those of its subdirectories
LaidOutItems(layout, manifest) ==
    <<DirItem(".git"), DirItem("build"), DirItem("pkg")>>
    \o [i \in DOMAIN layout.dirs |-> DirItem(layout.dirs[i])]
    \o [i \in DOMAIN layout.files |-> FileItem(layout.files[i], 20 + i, 2, NoAst, FALSE)]
    \o <<FileItem("main.py", 1, 5, Ast(1, 0, 1, 0, << >>, 0), FALSE),
          FileItem("native.so", 2, 0, NoAst, FALSE),
          FileItem("old.pyc", 3, 0, NoAst, FALSE)>>
    \o When(manifest.name # "none", FileItem(manifest.name, 4, 2, NoAst, FALSE))
    \o <<FileItem(".git/config", 5, 4, NoAst, FALSE),
          FileItem("build/lib.py", 6, 9, Ast(2, 0, 0, 0, << >>, 0), FALSE),
          FileItem("pkg/broken.py", 7, 1, BadAst, FALSE),
          FileItem("pkg/core.py", 8, 12, Ast(1, 1, 0, 2, <<2, 3>>, 1), FALSE)>>

LaidOutTrees ==
    { Tree(IF ord = "by_name" THEN LaidOutItems(l, m) ELSE Reverse(LaidOutItems(l, m)),
           m, TRUE, TRUE, TRUE) :
        l \in Layouts, m \in Manifests, ord \in {"by_name", "reversed"} }

\* an empty directory, and projects of every size, order and manifest; the
\* target may be unreadable, locked/ unsearchable, the toml package missing
Trees ==
    { Tree(<< >>, NoManifest, TRUE, TRUE, TRUE) }
    \cup LaidOutTrees
    \cup
    { Tree(Listing(x.k, x.sp, x.m, x.lk, x.ord), x.m, x.ls, x.tm, x.st) :
        x \in { y \in [ k : 0..MaxSrcFiles, sp : SizeProfiles, m : Manifests,
                        lk : BOOLEAN, ord : {"by_name", "reversed"},
                        ls : BOOLEAN, tm : BOOLEAN, st : BOOLEAN ] :
                  /\ ~y.tm => y.m.kind = "toml"
                  /\ ~y.st => y.lk
                  /\ y.m # NoManifest => (y.k <= 1 /\ y.sp = "equal" /\ ~y.lk)
                  /\ ~y.ls => (y.k <= 1 /\ y.sp = "equal" /\ y.m = NoManifest /\ ~y.lk) } }

----------------------------------------------------------------------------
(* CodeAnalyzer, one method at a time.  What a walk meets beyond the tree
   itself is an argument: gone is the place in the listing of a file that is
   removed between is_file() and stat() (0: none is); strict says whether
   is_file() raises PermissionError when the stat is refused or answers
   False, which depends on the version of pathlib. *)

\* d[k] = v
Assign(d, k, v) == [x \in DOMAIN d \cup {k} |-> IF x = k THEN v ELSE d[x]]

\* what rglob('*') yields: nothing when the target cannot be listed (rglob
\* swallows the error of its own scandir)
Yielded(tree) == IF tree.listable THEN tree.listing ELSE << >>

\* the loop of _analyze_structure from the i-th item on
RECURSIVE StructureWalk(_, _, _, _, _, _)
StructureWalk(listing, i, acc, tp, gone, strict) ==
    IF i > Len(listing) THEN acc
    ELSE LET item == listing[i]
             full == Under(tp, item.path)
         IN  IF item.denied
                 THEN IF strict THEN [acc EXCEPT !.stopped = "PermissionError"]
                      ELSE StructureWalk(listing, i + 1, acc, tp, gone, strict)
             ELSE IF item.kind = "file" /\ ~_should_ignore_file(full)
                 THEN IF i = gone THEN [acc EXCEPT !.stopped = "FileNotFoundError"]
                      ELSE LET file_ext == Lower(Suffix(item.path)) IN
                           StructureWalk(listing, i + 1,
                               [acc EXCEPT
                                  !.total_files = @ + 1,
                                  !.total_size_bytes = @ + item.size,
                                  !.file_types =
                                      IF file_ext # ""
                                          THEN Assign(@, file_ext, Get(@, file_ext, 0) + 1)
                                          ELSE @,
                                  !.all_files = Append(@, [path      |-> item.path,
                                                           size      |-> item.size,
                                                           extension |-> file_ext])],
                               tp, gone, strict)
             ELSE IF item.kind = "dir" /\ ~_should_ignore_dir(full)
                 THEN StructureWalk(listing, i + 1,
                          [acc EXCEPT !.directories = Append(@, item.path)],
                          tp, gone, strict)
             ELSE StructureWalk(listing, i + 1, acc, tp, gone, strict)

\* sorted(all_files, key=lambda x: x['size'], reverse=True)[:10]
LargestFiles(all_files) == Take(SortedBySizeDesc(all_files), 10)

\* CodeAnalyzer._analyze_structure: the dict it returns, whether it printed
\* its warning, and the exception that leaves it, if one does
_analyze_structure(tp, tree, gone) ==
    LET walk == StructureWalk(Yielded(tree), 1,
                    [ total_files |-> 0, total_size_bytes |-> 0,
                      directories |-> << >>, file_types |-> EmptyDict,
                      all_files |-> << >>, stopped |-> "no" ],
                    tp, gone, tree.strict)
    IN  [ raises  |-> IF walk.stopped = "FileNotFoundError"
                         THEN "FileNotFoundError" ELSE "no",
          warned  |-> walk.stopped = "PermissionError",
          value   |-> [ total_files      |-> walk.total_files,
                        total_size_bytes |-> walk.total_size_bytes,
                        directories      |-> walk.directories,
                        file_types       |-> walk.file_types,
                        largest_files    |-> LargestFiles(walk.all_files) ] ]

\* (target_path / name).exists()
Exists(tree, name) == \E i \in DOMAIN tree.listing : tree.listing[i].path = name

\* the parsed manifest of that name, or None when the tree has none or a parser
\* rejects it
Parsed(tree, name, kind) ==
    IF tree.manifest.name = name /\ tree.manifest.kind = kind THEN tree.manifest ELSE None

\* the strings of list that are in the set S, in order
Keep(list, S) == SelectSeq(list, LAMBDA x : x \in S)

\* the concatenation of the lists f[1], ..., f[n]
RECURSIVE Flatten(_)
Flatten(f) == IF f = << >> THEN << >> ELSE Head(f) \o Flatten(Tail(f))

\* CodeAnalyzer._parse_python_dependencies; tomllib says whether the module
\* can be imported
_parse_python_dependencies(tree, tomllib) ==
    LET req  == Parsed(tree, "requirements.txt", "text")
        proj == Parsed(tree, "pyproject.toml", "toml")
    IN  [ requirements_txt |->
              IF req = None THEN << >>
              ELSE SelectSeq(req.text, LAMBDA line : line # "" /\ ~StartsWith(line, "#")),
          pyproject_toml |->
              IF proj = None \/ ~tomllib THEN EmptyDict
              ELSE [project |-> [dependencies |-> proj.dependencies,
                                 scripts      |-> proj.scripts]],
          setup_py |-> << >>,
          pipfile  |-> EmptyDict ]

\* CodeAnalyzer._parse_javascript_dependencies
_parse_javascript_dependencies(tree) ==
    LET pkg == Parsed(tree, "package.json", "json")
    IN  [ package_json |->
              IF pkg = None THEN EmptyDict
              ELSE [dependencies    |-> pkg.dependencies,
                    devDependencies |-> pkg.devDependencies,
                    scripts         |-> pkg.scripts],
          yarn_lock    |-> IF Exists(tree, "yarn.lock") THEN "True" ELSE "False",
          package_lock |-> IF Exists(tree, "package-lock.json") THEN "True" ELSE "False" ]

\* CodeAnalyzer._analyze_dependencies
_analyze_dependencies(tree, tomllib) ==
    [ python     |-> _parse_python_dependencies(tree, tomllib),
      javascript |-> _parse_javascript_dependencies(tree),
      other      |-> EmptyDict ]

\* CodeAnalyzer._detect_languages
language_extensions ==
    [ e \in {".py", ".js", ".ts", ".jsx", ".tsx", ".html", ".css", ".scss", ".sass",
             ".java", ".cpp", ".c", ".go", ".rs", ".php", ".rb", ".sh", ".sql", ".md",
             ".yaml", ".yml", ".json", ".xml"} |->
        CASE e = ".py" -> "python"        [] e = ".js" -> "javascript"
          [] e = ".ts" -> "typescript"    [] e = ".jsx" -> "react"
          [] e = ".tsx" -> "react-typescript" [] e = ".html" -> "html"
          [] e = ".css" -> "css"          [] e = ".scss" -> "scss"
          [] e = ".sass" -> "sass"        [] e = ".java" -> "java"
          [] e = ".cpp" -> "cpp"          [] e = ".c" -> "c"
          [] e = ".go" -> "go"            [] e = ".rs" -> "rust"
          [] e = ".php" -> "php"          [] e = ".rb" -> "ruby"
          [] e = ".sh" -> "shell"         [] e = ".sql" -> "sql"
          [] e = ".md" -> "markdown"      [] e = ".yaml" -> "yaml"
          [] e = ".yml" -> "yaml"         [] e = ".json" -> "json"
          [] e = ".xml" -> "xml" ]

\* the language names, in the order sorted() puts them
LanguageOrder ==
    <<"c", "cpp", "css", "go", "html", "java", "javascript", "json", "markdown",
      "php", "python", "react", "react-typescript", "ruby", "rust", "sass", "scss",
      "shell", "sql", "typescript", "xml", "yaml">>

\* the loop of _detect_languages from the i-th item on
RECURSIVE LanguageWalk(_, _, _, _, _, _)
LanguageWalk(listing, i, detected, tp, filter_languages, strict) ==
    IF i > Len(listing) THEN detected
    ELSE LET item == listing[i]
             ext  == Lower(Suffix(item.path))
         IN  IF item.denied
                 THEN IF strict THEN detected
                      ELSE LanguageWalk(listing, i + 1, detected, tp, filter_languages,
                                        strict)
             ELSE IF /\ item.kind = "file"
                     /\ ~_should_ignore_file(Under(tp, item.path))
                     /\ ext \in DOMAIN language_extensions
                     /\ (~Truthy(filter_languages)
                           \/ In(language_extensions[ext], filter_languages))
                 THEN LanguageWalk(listing, i + 1,
                                   detected \cup {language_extensions[ext]},
                                   tp, filter_languages, strict)
             ELSE LanguageWalk(listing, i + 1, detected, tp, filter_languages, strict)

_detect_languages(tp, tree, filter_languages) ==
    Keep(LanguageOrder,
         LanguageWalk(Yielded(tree), 1, {}, tp, filter_languages, tree.strict))

\* what one dependency of pyproject.toml makes _detect_frameworks append
FrameworksOfDep(dep) ==
    LET d == Lower(dep) IN
    When(Contains(d, "click"), "click") \o When(Contains(d, "rich"), "rich")
    \o When(Contains(d, "jinja2"), "jinja2")
    \o When(Contains(d, "pyyaml") \/ Contains(d, "yaml"), "pyyaml")
    \o When(Contains(d, "pytest"), "pytest") \o When(Contains(d, "flask"), "flask")
    \o When(Contains(d, "fastapi"), "fastapi") \o When(Contains(d, "django"), "django")
    \o When(Contains(d, "mkdocs"), "mkdocs") \o When(Contains(d, "black"), "black")
    \o When(Contains(d, "flake8"), "flake8") \o When(Contains(d, "psutil"), "psutil")
    \o When(Contains(d, "setuptools"), "setuptools")

\* CodeAnalyzer._detect_frameworks
_detect_frameworks(tree) ==
    LET proj == IF tree.toml THEN Parsed(tree, "pyproject.toml", "toml") ELSE None
        req  == Parsed(tree, "requirements.txt", "text")
        pkg  == Parsed(tree, "package.json", "json")
        has(word) == \E i \in DOMAIN req.text : Contains(Lower(req.text[i]), word)
    IN  (IF proj = None THEN << >>
         ELSE Flatten([i \in DOMAIN proj.dependencies |->
                          FrameworksOfDep(proj.dependencies[i])]))
        \o (IF req = None THEN << >>
            ELSE When(has("flask"), "flask") \o When(has("fastapi"), "fastapi")
                 \o When(has("django"), "django") \o When(has("pytest"), "pytest")
                 \o When(has("click"), "click") \o When(has("rich"), "rich")
                 \o When(has("jinja2"), "jinja2")
                 \o When(has("pyyaml") \/ has("yaml"), "pyyaml"))
        \o When(Exists(tree, "manage.py"), "django")
        \o (IF pkg = None THEN << >>
            ELSE LET deps == pkg.dependencies \o pkg.devDependencies IN
                 When(In("next", deps), "nextjs") \o When(In("react", deps), "react")
                 \o When(In("vue", deps), "vue")
                 \o When(In("angular", deps) \/ In("@angular/core", deps), "angular")
                 \o When(In("express", deps), "express") \o When(In("jest", deps), "jest")
                 \o When(In("vitest", deps), "vitest"))

\* the entries of the target directory itself
TopLevel(tree) == SelectSeq(tree.listing, LAMBDA item : ~Contains(item.path, "/"))

\* target_path.iterdir() raises when the target cannot be listed
PatternsRaises(tree) == ~tree.listable

\* CodeAnalyzer._detect_patterns
_detect_patterns_with_click_tag(tp, tree) ==
    LET top  == TopLevel(tree)
        dirs == {Lower(top[i].path) : i \in {j \in DOMAIN top : top[j].kind = "dir"}}
        doc_patterns == {"docs", "documentation", "readme", "generated-docs",
                         "nexus_docs", "src/*/docs", "*/readmes"}
        doc_found ==
            \/ dirs \cap doc_patterns # {}
            \/ \E i \in DOMAIN top :
                  StartsWith(top[i].path, "README") \/ StartsWith(top[i].path, "readme")
            \/ \E i \in DOMAIN top :
                  /\ top[i].kind = "dir"
                  /\ \E d \in doc_patterns : Contains(Lower(Under(tp, top[i].path)), d)
        proj == IF tree.toml THEN Parsed(tree, "pyproject.toml", "toml") ELSE None
        frameworks == _detect_frameworks(tree)
    IN  When(dirs \cap {"api", "apis", "routes", "endpoints"} # {}, "api_service")
        \o (IF {"models", "views", "controllers"} \subseteq dirs THEN <<"mvc">>
            ELSE When(dirs \cap {"models", "views"} # {}, "mvc_like"))
        \o When("services" \in dirs
                  \/ Cardinality({d \in dirs : Contains(d, "service")}) > 1,
                "microservices")
        \o When("packages" \in dirs \/ "apps" \in dirs, "monorepo")
        \o When(dirs \cap {"test", "tests", "__tests__", "spec"} # {}, "has_tests")
        \o When(doc_found, "documented")
        \o When(proj # None /\ Truthy(proj.scripts), "cli_application")
        \o (IF In("click", frameworks) THEN <<"cli_application", "click">> ELSE << >>)
        \o When(dirs \cap {"plugins", "extensions", "modules", "core"} # {},
                "plugin_architecture")
        \o When(In("jinja2", frameworks), "template_system")
        \o When(\E f \in {"config.yaml", "config.yml", ".env", ".env.example"} :
                    Exists(tree, f),
                "hybrid_configuration")
        \o When(\E f \in {"install.py", "install.sh", "install.bat", "install-macos.sh"} :
                    Exists(tree, f),
                "cross_platform")
        \o When(dirs \cap {"generated-docs", "nexus_docs", "src/*/docs"} # {},
                "documentation_system")
        \o When(Exists(tree, "docker-compose.yml") \/ Exists(tree, "Dockerfile"),
                "containerized")

_detect_patterns(tp, tree) ==
    LET top  == TopLevel(tree)
        dirs == {Lower(top[i].path) : i \in {j \in DOMAIN top : top[j].kind = "dir"}}
        doc_patterns == {"docs", "documentation", "readme", "generated-docs",
                         "nexus_docs", "src/*/docs", "*/readmes"}
        doc_found ==
            \/ dirs \cap doc_patterns # {}
            \/ \E i \in DOMAIN top :
                  StartsWith(top[i].path, "README") \/ StartsWith(top[i].path, "readme")
            \/ \E i \in DOMAIN top :
                  /\ top[i].kind = "dir"
                  /\ \E d \in doc_patterns : Contains(Lower(Under(tp, top[i].path)), d)
        proj == IF tree.toml THEN Parsed(tree, "pyproject.toml", "toml") ELSE None
        frameworks == _detect_frameworks(tree)
    IN  When(dirs \cap {"api", "apis", "routes", "endpoints"} # {}, "api_service")
        \o (IF {"models", "views", "controllers"} \subseteq dirs THEN <<"mvc">>
            ELSE When(dirs \cap {"models", "views"} # {}, "mvc_like"))
        \o When("services" \in dirs
                  \/ Cardinality({d \in dirs : Contains(d, "service")}) > 1,
                "microservices")
        \o When("packages" \in dirs \/ "apps" \in dirs, "monorepo")
        \o When(dirs \cap {"test", "tests", "__tests__", "spec"} # {}, "has_tests")
        \o When(doc_found, "documented")
        \o When(proj # None /\ Truthy(proj.scripts), "cli_application")
        \o (IF In("click", frameworks) THEN <<"cli_application", "rich_output">> ELSE << >>)
        \o When(dirs \cap {"plugins", "extensions", "modules", "core"} # {},
                "plugin_architecture")
        \o When(In("jinja2", frameworks), "template_system")
        \o When(\E f \in {"config.yaml", "config.yml", ".env", ".env.example"} :
                    Exists(tree, f),
                "hybrid_configuration")
        \o When(\E f \in {"install.py", "install.sh", "install.bat", "install-macos.sh"} :
                    Exists(tree, f),
                "cross_platform")
        \o When(dirs \cap {"generated-docs", "nexus_docs", "src/*/docs"} # {},
                "documentation_system")
        \o When(Exists(tree, "docker-compose.yml") \/ Exists(tree, "Dockerfile"),
                "containerized")

\* CodeAnalyzer._analyze_python_complexity
RECURSIVE SumOperands(_)
SumOperands(boolops) ==
    IF boolops = << >> THEN 0 ELSE (Head(boolops) - 1) + SumOperands(Tail(boolops))

_analyze_python_complexity_all_operands(ast) ==
    IF ast.kind # "module" THEN 0
    ELSE 1 + ast.ifs + ast.whiles + ast.fors + ast.handlers
           + SumOperands(ast.boolops) + Len(ast.boolops) + ast.comps

_analyze_python_complexity(ast) ==
    IF ast.kind # "module" THEN 0
    ELSE 1 + ast.ifs + ast.whiles + ast.fors + ast.handlers
           + SumOperands(ast.boolops) + ast.comps

\* the loop of _analyze_quality from the i-th item on
RECURSIVE QualityWalk(_, _, _, _, _, _)
QualityWalk(listing, i, acc, tp, deep_analysis, strict) ==
    IF i > Len(listing) THEN acc
    ELSE LET item     == listing[i]
             file_str == Under(tp, item.path)
             suffix   == Suffix(item.path)
             is_test  == \E pat \in {"test_", "_test.", "tests/", "__tests__/",
                                     ".spec.", ".test."} :
                            Contains(Lower(file_str), pat)
             complexity == _analyze_python_complexity(item.ast)
         IN  IF item.denied
                 THEN IF strict THEN acc
                      ELSE QualityWalk(listing, i + 1, acc, tp, deep_analysis, strict)
             ELSE IF item.kind = "file" /\ ~_should_ignore_file(file_str)
                 THEN QualityWalk(listing, i + 1,
                          [acc EXCEPT
                             !.total_lines_of_code =
                                 IF suffix \in {".py", ".js", ".ts", ".jsx", ".tsx"}
                                     THEN @ + item.lines ELSE @,
                             !.test_file_count = IF is_test THEN @ + 1 ELSE @,
                             !.python_complexity =
                                 IF deep_analysis /\ suffix = ".py" /\ complexity > 0
                                     THEN Assign(@, item.path, complexity) ELSE @],
                          tp, deep_analysis, strict)
             ELSE QualityWalk(listing, i + 1, acc, tp, deep_analysis, strict)

\* CodeAnalyzer._analyze_quality
_analyze_quality(tp, tree, deep_analysis) ==
    LET walk == QualityWalk(Yielded(tree), 1,
                    [ total_lines_of_code |-> 0, test_file_count |-> 0,
                      python_complexity |-> EmptyDict ],
                    tp, deep_analysis, tree.strict)
    IN  [ total_lines_of_code      |-> walk.total_lines_of_code,
          test_file_count          |-> walk.test_file_count,
          python_complexity        |-> walk.python_complexity,
          code_coverage_indicators |->
              Keep(<<".coverage", "coverage.xml", "htmlcov/", "coverage/">>,
                   {f \in {".coverage", "coverage.xml"} : Exists(tree, f)}
                   \cup {f \in {"htmlcov/", "coverage/"} :
                           Exists(tree, SubSeq(f, 1, Len(f) - 1))}) ]

\* CodeAnalyzer._find_entry_points
_find_entry_points(tree) ==
    LET proj == IF tree.toml THEN Parsed(tree, "pyproject.toml", "toml") ELSE None
        pkg  == Parsed(tree, "package.json", "json")
    IN  (IF proj = None THEN << >>
         ELSE [i \in DOMAIN proj.scripts |->
                  proj.scripts[i].name \o ": " \o proj.scripts[i].path])
        \o Keep(<<"main.py", "app.py", "manage.py", "run.py", "__main__.py">>,
                {f \in {"main.py", "app.py", "manage.py", "run.py", "__main__.py"} :
                   Exists(tree, f)})
        \o (IF pkg = None THEN << >>
            ELSE LET names == SelectSeq(<<"start", "dev", "serve", "main">>,
                                        LAMBDA n : In(n, pkg.scripts))
                 IN  [i \in DOMAIN names |-> "npm run " \o names[i]])

----------------------------------------------------------------------------
(* CodeAnalyzer.analyze on a target that exists, one entry of the dict it
   builds at a time.  files holds the tree. *)

\* the options analyze is called with
WalkOptions == { EmptyDict, [deep |-> "True"], [languages |-> <<"python">>] }

WalkInit ==
    /\ now = 0
    /\ dirExists = [d \in Dirs |-> TRUE]
    /\ files \in Trees
    /\ cache = [k \in {} |-> Corrupt]
    /\ scope = CHOOSE u \in Scopes : ~u.moving
    /\ ret = NoRet
    /\ \E o \in WalkOptions :
          /\ o # EmptyDict =>
                \/ Len(files.listing) <= Len(Listing(1, "equal", NoManifest, FALSE,
                                                     "by_name"))
                \/ files \in LaidOutTrees
          /\ inv = [Idle EXCEPT !.pc = "structure", !.target_path = WA, !.options = o,
                                !.analysis_data = EmptyDict]

\* the walk goes on to the next entry of the dict
WalkOn(pc, key, value, events) ==
    /\ inv' = [inv EXCEPT !.pc = pc,
                          !.analysis_data = Assign(@, key, value),
                          !.trace = @ \o <<key>> \o events]
    /\ ret' = ret

\* an exception leaves analyze
WalkRaise(key, exception) ==
    /\ inv' = [inv EXCEPT !.pc = "done", !.trace = @ \o <<key>>]
    /\ ret' = [Raised("analyze", inv.target_path, inv.options, inv.trace \o <<key>>)
                 EXCEPT !.branch = exception]

\* line 36
AnalyzeStructure(gone) ==
    /\ inv.pc = "structure"
    /\ LET r == _analyze_structure(inv.target_path, files, gone) IN
       IF r.raises # "no"
          THEN WalkRaise("structure", r.raises)
          ELSE WalkOn("dependencies", "structure", r.value,
                      When(r.warned, "Permission denied accessing some files"))
    /\ UNCHANGED <<now, dirExists, files, cache, scope>>

\* line 37
AnalyzeDependencies(tomllib) ==
    /\ inv.pc = "dependencies"
    /\ WalkOn("languages", "dependencies", _analyze_dependencies(files, tomllib), << >>)
    /\ UNCHANGED <<now, dirExists, files, cache, scope>>

\* line 38
DetectLanguages ==
    /\ inv.pc = "languages"
    /\ WalkOn("frameworks", "languages",
              _detect_languages(inv.target_path, files,
                                Get(inv.options, "languages", << >>)),
              << >>)
    /\ UNCHANGED <<now, dirExists, files, cache, scope>>

\* line 39
DetectFrameworks ==
    /\ inv.pc = "frameworks"
    /\ WalkOn("patterns", "frameworks", _detect_frameworks(files), << >>)
    /\ UNCHANGED <<now, dirExists, files, cache, scope>>

\* line 40
DetectPatterns ==
    /\ inv.pc = "patterns"
    /\ IF PatternsRaises(files)
          THEN WalkRaise("patterns", "PermissionError")
          ELSE WalkOn("quality_metrics", "patterns",
                      _detect_patterns(inv.target_path, files), << >>)
    /\ UNCHANGED <<now, dirExists, files, cache, scope>>

\* line 41
AnalyzeQuality ==
    /\ inv.pc = "quality_metrics"
    /\ WalkOn("entry_points", "quality_metrics",
              _analyze_quality(inv.target_path, files,
                               Get(inv.options, "deep", "False") = "True"),
              << >>)
    /\ UNCHANGED <<now, dirExists, files, cache, scope>>

\* lines 42-43: the last entry, and the return of the dict
FindEntryPoints ==
    /\ inv.pc = "entry_points"
    /\ LET facts == Assign(inv.analysis_data, "entry_points", _find_entry_points(files)) IN
       /\ inv' = [inv EXCEPT !.pc = "done", !.analysis_data = facts,
                             !.trace = @ \o <<"entry_points">>]
       /\ ret' = Returned("analyze", inv.target_path, inv.options, facts, "none",
                          inv.trace \o <<"entry_points">>, None)
    /\ UNCHANGED <<now, dirExists, files, cache, scope>>

\* the places where a file may be removed under the walk
Removable == {0} \cup {i \in DOMAIN files.listing : files.listing[i].path = "main.py"}

WalkNext ==
    \/ \E gone \in Removable : AnalyzeStructure(gone)
    \/ \E tomllib \in BOOLEAN : AnalyzeDependencies(tomllib)
    \/ DetectLanguages
    \/ DetectFrameworks
    \/ DetectPatterns
    \/ AnalyzeQuality
    \/ FindEntryPoints

WalkSpec == WalkInit /\ [][WalkNext]_vars

----------------------------------------------------------------------------
(* Claims about the analyzer *)

\* the call of analyze has ended
AnalyzeEnded == ret.op = "analyze"

\* C14: analyze on a target that exists never raises: it returns a dict with
\* all seven fields, whatever is refused, removed or unparsable in the tree.
C14_AnalyzeNeverRaises ==
    AnalyzeEnded =>
        /\ ret.outcome = "return"
        /\ \A i \in DOMAIN analysis_required_fields :
              Has(ret.value, analysis_required_fields[i])

\* the structure entry of the dict is computed
StructureDone == Has(inv.analysis_data, "structure")

\* the places in the listing of the files the walk can stat and does not ignore
Countable(tree) ==
    {i \in DOMAIN tree.listing :
        /\ tree.listing[i].kind = "file"
        /\ ~tree.listing[i].denied
        /\ ~_should_ignore_file(Under(WA, tree.listing[i].path))}

\* the place of the first entry whose stat is refused, 0 when there is none
FirstDenied(tree) ==
    LET at == {i \in DOMAIN tree.listing : tree.listing[i].denied}
    IN  IF at = {} THEN 0 ELSE CHOOSE i \in at : \A j \in at : i <= j

\* C15: when a stat is refused on one subtree during the walk of
\* _analyze_structure, a warning is recorded and the walk goes on: every file
\* it can stat and does not ignore, those listed after the refusal included,
\* is counted in total_files and is among the files largest_files is drawn from.
C15_WalkGoesOnAfterRefusal ==
    (StructureDone /\ files.listable /\ FirstDenied(files) > 0) =>
        /\ In("Permission denied accessing some files", inv.trace)
        /\ inv.analysis_data["structure"].total_files = Cardinality(Countable(files))

\* the characters of the paths, in code point order
Alphabet == "-./0123456789ABCDEFGHIJKLMNOPQRSTUVWXYZ_abcdefghijklmnopqrstuvwxyz"

\* a < b, as Python compares strings
PathBefore(a, b) ==
    \E n \in 1..Len(b) :
        /\ n - 1 <= Len(a)
        /\ SubSeq(a, 1, n - 1) = SubSeq(b, 1, n - 1)
        /\ \/ n > Len(a)
           \/ LastIndex(Alphabet, SubSeq(a, n, n)) < LastIndex(Alphabet, SubSeq(b, n, n))

\* the files a completed walk has counted
Counted(tree) == {tree.listing[i] : i \in Countable(tree)}

\* largest_files holds min(10, total_files) files, the largest ones, by size
\* descending
LargestBySize(structure, tree) ==
    LET top == structure.largest_files IN
    /\ Len(top) = (IF structure.total_files < 10 THEN structure.total_files ELSE 10)
    /\ \A i, j \in DOMAIN top : i < j => top[i].size >= top[j].size
    /\ \A i, j \in DOMAIN top : i # j => top[i].path # top[j].path
    /\ \A i \in DOMAIN top :
          \E f \in Counted(tree) : f.path = top[i].path /\ f.size = top[i].size
    /\ \A f \in Counted(tree) :
          \/ \E i \in DOMAIN top : top[i].path = f.path
          \/ \A i \in DOMAIN top : top[i].size >= f.size

\* C16: largest_files holds min(10, total_files) entries, the largest files
\* the walk counted, by size descending and, among files of equal size, by
\* path ascending: the listing order of the filesystem does not show in it.
C16_LargestFilesTiesByPath ==
    (StructureDone /\ FirstDenied(files) = 0) =>
        LET structure == inv.analysis_data["structure"]
            top       == structure.largest_files
        IN  /\ LargestBySize(structure, files)
            /\ \A i, j \in DOMAIN top :
                  (i < j /\ top[i].size = top[j].size) =>
                      PathBefore(top[i].path, top[j].path)

\* what does hold of largest_files after a walk that no refusal cut short
LargestFilesBySizeOnly ==
    (StructureDone /\ FirstDenied(files) = 0 /\ files.listable) =>
        LargestBySize(inv.analysis_data["structure"], files)

----------------------------------------------------------------------------
(* DiscoveryReportManager.  The discovery directory is a map from file names
   to texts.  A text is kept as the sequence of its leading lines (for a
   report: the frontmatter block, both markers included) and, for what
   follows them, the values it was rendered from. *)

Digits == "0123456789"

\* characters outside ASCII that titles are written with
UnicodeAlnum   == "éÉ²"
UnicodeLowerOf == [c \in {"É"} |-> "é"]

Chars(s) == {SubSeq(s, i, i) : i \in 1..Len(s)}

\* str.isalnum: true of the letters and digits of every script
Alnum == Chars(LowerCase) \cup Chars(UpperCase) \cup Chars(Digits) \cup Chars(UnicodeAlnum)

isalnum(c) == c \in Alnum

\* title.lower()
RECURSIVE title_lower(_)
title_lower(s) ==
    IF s = "" THEN ""
    ELSE LET c == SubSeq(s, 1, 1)
         IN  (IF c \in DOMAIN LowerOf THEN LowerOf[c]
              ELSE IF c \in DOMAIN UnicodeLowerOf THEN UnicodeLowerOf[c]
              ELSE c) \o title_lower(SubSeq(s, 2, Len(s)))

\* s.replace(old, new): the occurrences of old, left to right, not overlapping
RECURSIVE replace(_, _, _)
replace(s, old, new) ==
    IF Len(s) < Len(old) THEN s
    ELSE IF SubSeq(s, 1, Len(old)) = old
         THEN new \o replace(SubSeq(s, Len(old) + 1, Len(s)), old, new)
         ELSE SubSeq(s, 1, 1) \o replace(SubSeq(s, 2, Len(s)), old, new)

\* ''.join(c if c.isalnum() or c == '-' else '' for c in s)
RECURSIVE keep_alnum_and_hyphens(_)
keep_alnum_and_hyphens(s) ==
    IF s = "" THEN ""
    ELSE LET c == SubSeq(s, 1, 1)
         IN  (IF isalnum(c) \/ c = "-" THEN c ELSE "")
                 \o keep_alnum_and_hyphens(SubSeq(s, 2, Len(s)))

\* while '--' in s: s = s.replace('--', '-')
RECURSIVE collapse_hyphens(_)
collapse_hyphens(s) ==
    IF Contains(s, "--") THEN collapse_hyphens(replace(s, "--", "-")) ELSE s

\* s.strip(chars)
strip(s, chars) ==
    LET kept == {i \in 1..Len(s) : SubSeq(s, i, i) \notin chars}
    IN  IF kept = {} THEN ""
        ELSE SubSeq(s, CHOOSE i \in kept : \A j \in kept : i <= j,
                       CHOOSE i \in kept : \A j \in kept : j <= i)

\* DiscoveryReportManager._sanitize_title
_sanitize_title(title) ==
    LET lowered   == title_lower(title)
        hyphened  == replace(lowered, " ", "-")
        filtered  == keep_alnum_and_hyphens(hyphened)
        collapsed == collapse_hyphens(filtered)
        sanitized == strip(collapsed, {"-"})
    IN  IF sanitized = "" THEN "discovery-report" ELSE sanitized

\* datetime.now().strftime("%Y-%m-%d"), the clock counting the hours from
\* 2024-01-15 00:00
strftime_date(t) == "2024-01-" \o ToString(15 + (t \div 24))

TwoDigits(n) == IF n < 10 THEN "0" \o ToString(n) ELSE ToString(n)

\* datetime.now().strftime("%Y-%m-%d %H:%M:%S")
strftime_datetime(t) == strftime_date(t) \o " " \o TwoDigits(t % 24) \o ":00:00"

\* datetime.now().isoformat()
isoformat(t) == strftime_date(t) \o "T" \o TwoDigits(t % 24) \o ":00:00"

\* Path("nexus_docs") / "discovery"
discovery_dir == "nexus_docs/discovery"

\* the file name save_report writes to
report_filename(title, t) ==
    "DISC-" \o strftime_date(t) \o "-" \o _sanitize_title(title) \o ".md"

\* the file names of the titles reports are saved under, hour by hour
Filenames(titles, hours) ==
    [title \in titles |-> [t \in hours |-> report_filename(title, t)]]

\* DiscoveryReportManager._generate_report_content: the frontmatter lines, then
\* the body, which is rendered from the title, the time, the target and the
\* results
_generate_report_content(results, title, target_path, t) ==
    [ kind  |-> "report",
      lines |-> << "---",
                   "title: " \o title,
                   "type: discovery",
                   "date: " \o strftime_date(t),
                   "target_path: " \o target_path,
                   "analysis_timestamp: " \o results.metadata.timestamp,
                   "engine_version: " \o results.metadata.version,
                   "deep_analysis: " \o Get(results.metadata.options, "deep", "False"),
                   "languages: " \o Join(results.analysis.languages),
                   "frameworks: " \o Join(results.analysis.frameworks),
                   "---" >>,
      body  |-> [ title         |-> title,
                  analysis_date |-> strftime_datetime(t),
                  target_path   |-> target_path,
                  raw           |-> results ] ]

\* the index of the first occurrence of pat in s, 0 when there is none
Find(s, pat) ==
    LET at == {i \in 1..(Len(s) - Len(pat) + 1) : SubSeq(s, i, i + Len(pat) - 1) = pat}
    IN  IF at = {} THEN 0 ELSE CHOOSE i \in at : \A j \in at : i <= j

Whitespace == {" ", "\t", "\n", "\r"}

\* Path.stem
Stem(name) == SubSeq(name, 1, Len(name) - Len(Suffix(name)))

\* the metadata dict of the lines of a frontmatter block: each line holding a
\* colon is split at its first colon, a later key replacing an earlier one
RECURSIVE FrontmatterDict(_)
FrontmatterDict(lines) ==
    IF lines = << >> THEN EmptyDict
    ELSE LET rest == FrontmatterDict(SubSeq(lines, 1, Len(lines) - 1))
             line == lines[Len(lines)]
             at   == Find(line, ":")
         IN  IF at = 0 THEN rest
             ELSE Assign(rest, strip(SubSeq(line, 1, at - 1), Whitespace),
                               strip(SubSeq(line, at + 1, Len(line)), Whitespace))

\* DiscoveryReportManager._extract_report_metadata: the block runs from the
\* fourth character of the text to the first '---' found after it
_extract_report_metadata(filename, content) ==
    LET fallback == (("filename" :> filename) @@ ("path" :> Under(discovery_dir, filename))
                     @@ ("title" :> Stem(filename)) @@ ("date" :> "Unknown"))
        lines    == content.lines
    IN  IF lines = << >> \/ ~StartsWith(lines[1], "---")
        THEN fallback
        ELSE LET after == <<SubSeq(lines[1], 4, Len(lines[1]))>> \o Tail(lines)
                 ends  == {i \in DOMAIN after : Contains(after[i], "---")}
             IN  IF ends = {} THEN fallback
                 ELSE LET end   == CHOOSE i \in ends : \A j \in ends : i <= j
                          block == SubSeq(after, 1, end - 1)
                                     \o <<SubSeq(after[end], 1, Find(after[end], "---") - 1)>>
                      IN  Assign(Assign(FrontmatterDict(block), "filename", filename),
                                 "path", Under(discovery_dir, filename))

\* self.discovery_dir.glob("DISC-*.md")
Glob(dir) ==
    {f \in DOMAIN dir : Len(f) >= 8 /\ StartsWith(f, "DISC-")
                          /\ SubSeq(f, Len(f) - 2, Len(f)) = ".md"}

\* the orders in which a directory scan may yield the files S
Listings(S) ==
    {l \in [1..Cardinality(S) -> S] : \A i, j \in 1..Cardinality(S) : l[i] = l[j] => i = j}

\* the characters of the dates, in code point order
CodeOrder == " -0123456789:ABCDEFGHIJKLMNOPQRSTUVWXYZabcdefghijklmnopqrstuvwxyz"
Ord == [c \in Chars(CodeOrder) |-> CHOOSE i \in 1..Len(CodeOrder) : SubSeq(CodeOrder, i, i) = c]

\* a < b on str: by the first code point that differs, a prefix first
StrLess(a, b) ==
    LET m    == IF Len(a) < Len(b) THEN Len(a) ELSE Len(b)
        diff == {i \in 1..m : SubSeq(a, i, i) # SubSeq(b, i, i)}
    IN  IF diff = {} THEN Len(a) < Len(b)
        ELSE LET i == CHOOSE k \in diff : \A j \in diff : k <= j
             IN  Ord[SubSeq(a, i, i)] < Ord[SubSeq(b, i, i)]

\* x.get('date', '')
DateKey(metadata) == Get(metadata, "date", "")

\* reports.sort(key=date, reverse=True): stable, so reports of equal date keep
\* the order of the scan
RECURSIVE SortedByDateDesc(_)
SortedByDateDesc(list) ==
    IF list = << >> THEN << >>
    ELSE LET rest == SortedByDateDesc(SubSeq(list, 1, Len(list) - 1))
             x    == list[Len(list)]
             k    == Cardinality({i \in DOMAIN rest : ~StrLess(DateKey(rest[i]), DateKey(x))})
         IN  SubSeq(rest, 1, k) \o <<x>> \o SubSeq(rest, k + 1, Len(rest))

\* a listing left in the order of the scan
list_reports_unsorted(dir, listing) ==
    [i \in DOMAIN listing |-> _extract_report_metadata(listing[i], dir[listing[i]])]

\* DiscoveryReportManager.list_reports, the scan yielding the files in the
\* order listing
list_reports(dir, listing) ==
    SortedByDateDesc([i \in DOMAIN listing |->
                         _extract_report_metadata(listing[i], dir[listing[i]])])

\* DiscoveryReportManager._update_index: the text of index.md, one entry for
\* each report list_reports returns
_update_index(dir, listing) ==
    [ kind    |-> "index",
      lines   |-> <<"# Discovery Reports", "">>,
      entries |-> LET reports == list_reports(dir, listing)
                  IN  [i \in DOMAIN reports |->
                         [ title    |-> Get(reports[i], "title", reports[i]["filename"]),
                           date     |-> Get(reports[i], "date", "Unknown"),
                           filename |-> reports[i]["filename"] ]] ]

\* DiscoveryReportManager.get_report
get_report(dir, report_id) ==
    LET report_file == report_id \o ".md"
    IN  IF report_file \notin DOMAIN dir
        THEN None
        ELSE [ content  |-> dir[report_file],
               metadata |-> _extract_report_metadata(report_file, dir[report_file]),
               path     |-> Under(discovery_dir, report_file) ]

----------------------------------------------------------------------------
(* The report manager at work: reports are saved, listed and read while the
   clock advances *)

\* how many saved reports the directory holds at most
MaxReports == 1

\* the titles reports are saved under
Titles == {"My  Cool Project!", "a\tb", "Café", "---"}

\* the results that are saved: a pipeline run on a small Python project
SavedResults ==
    { LET a == Facts([languages |-> <<"python">>, frameworks |-> <<"click", "rich">>,
                      entry_points |-> <<"main.py">>,
                      requirements_txt |-> <<"click", "rich">>],
                     [total_files |-> 4, test_file_count |-> 1, total_lines_of_code |-> 10],
                     <<"has_tests">>)
          s == DiscoverySynthesizer_synthesize(a)
      IN  discovery_results([target_path |-> WA, timestamp |-> isoformat(0),
                             version |-> "1.0.0", options |-> EmptyDict],
                            a, s, DiscoveryValidator_validate(a, s)) }

\* a text that is not a report, and a file of an older layout whose name the
\* scan matches
Notes  == [kind |-> "text", lines |-> <<"# Notes">>]
Legacy == [kind |-> "text", lines |-> <<"# Old analysis">>]

\* the discovery directory as the manager may find it
InitialDirectories ==
    { EmptyDict,
      ("notes.md" :> Notes) @@ ("DISC-legacy.md" :> Legacy) }

ReportInit ==
    /\ now = 0
    /\ dirExists = [d \in Dirs |-> TRUE]
    /\ files \in InitialDirectories
    /\ cache = [k \in {} |-> Corrupt]
    /\ scope = CHOOSE u \in Scopes : u.moving
    /\ ret = NoRet
    /\ inv = Idle

\* report_filename over the titles and the hours of the clock
SavedAs == Filenames(Titles, {h * (default_ttl \div 2) : h \in 0..MaxTicks})

ReportReturned(op, args, v) ==
    [op |-> op, args |-> args, outcome |-> "return", value |-> v]

\* save_report(results, title, target_path); the scan of _update_index yields
\* the report files in the order listing
SaveReport(results, title, target_path) ==
    LET filename == SavedAs[title][now]
        content  == _generate_report_content(results, title, target_path, now)
        written  == Assign(files, filename, content)
    IN  /\ Cardinality({f \in Glob(files) \ {filename} : files[f].kind = "report"})
              < MaxReports
        /\ \E listing \in Listings(Glob(written)) :
              files' = Assign(written, "index.md", _update_index(written, listing))
        /\ ret' = ReportReturned("save_report", [title |-> title],
                                 Under(discovery_dir, filename))
        /\ UNCHANGED <<now, dirExists, cache, inv, scope>>

\* list_reports()
ListReports ==
    /\ \E listing \in Listings(Glob(files)) :
          ret' = ReportReturned("list_reports", EmptyDict, list_reports(files, listing))
    /\ UNCHANGED <<now, dirExists, files, cache, inv, scope>>

\* the ids a report is asked for by: those of the files, and one of no file
ReportIds == {Stem(f) : f \in DOMAIN files} \cup {"DISC-2024-01-15-none"}

\* get_report(report_id)
GetReport(report_id) ==
    /\ ret' = ReportReturned("get_report", [report_id |-> report_id],
                             get_report(files, report_id))
    /\ UNCHANGED <<now, dirExists, files, cache, inv, scope>>

ReportNext ==
    \/ Tick
    \/ \E results \in SavedResults, title \in Titles : SaveReport(results, title, WA)
    \/ ListReports
    \/ \E report_id \in ReportIds : GetReport(report_id)

ReportSpec == ReportInit /\ [][ReportNext]_vars

----------------------------------------------------------------------------
(* Claims about the reports *)

SaveReturned == ret.op = "save_report" /\ ret.outcome = "return"

\* the slug of the file name the save returned: what stands between
\* DISC-YYYY-MM-DD- and .md
SavedSlug == LET name == Name(ret.value) IN SubSeq(name, 17, Len(name) - 3)

SlugAlphabet == Chars(LowerCase) \cup Chars(Digits) \cup {"-"}

\* the title lowered, its whitespace turned into hyphens, every other
\* character outside a-z, 0-9 and the hyphen dropped
RECURSIVE SlugCharacters(_)
SlugCharacters(s) ==
    IF s = "" THEN ""
    ELSE LET c == SubSeq(s, 1, 1)
             l == IF c \in DOMAIN LowerOf THEN LowerOf[c] ELSE c
         IN  (IF l \in Whitespace THEN "-" ELSE IF l \in SlugAlphabet THEN l ELSE "")
                 \o SlugCharacters(SubSeq(s, 2, Len(s)))

\* hyphens in a row made one
RECURSIVE SingleHyphens(_)
SingleHyphens(s) ==
    IF Len(s) < 2 THEN s
    ELSE IF SubSeq(s, 1, 2) = "--" THEN SingleHyphens(SubSeq(s, 2, Len(s)))
    ELSE SubSeq(s, 1, 1) \o SingleHyphens(SubSeq(s, 2, Len(s)))

SlugOfTitle(title) ==
    LET slug == strip(SingleHyphens(SlugCharacters(title)), {"-"})
    IN  IF slug = "" THEN "discovery-report" ELSE slug

\* C17: the slug in the file name of a saved report is not empty, is written
\* in a-z, 0-9 and hyphens only, has no two hyphens in a row and none at
\* either end, and is the lowered title with whitespace turned into hyphens
\* and every other character stripped, or the default when that is empty
C17_SlugOfSavedReport ==
    SaveReturned =>
        /\ SavedSlug # ""
        /\ Chars(SavedSlug) \subseteq SlugAlphabet
        /\ ~Contains(SavedSlug, "--")
        /\ SubSeq(SavedSlug, 1, 1) # "-"
        /\ SubSeq(SavedSlug, Len(SavedSlug), Len(SavedSlug)) # "-"
        /\ SavedSlug = SlugOfTitle(ret.args.title)

\* what holds of every slug: not empty, no two hyphens in a row, none at
\* either end, nothing but hyphens and alphanumerics
SlugWellFormed ==
    SaveReturned =>
        /\ SavedSlug # ""
        /\ \A c \in Chars(SavedSlug) : isalnum(c) \/ c = "-"
        /\ ~Contains(SavedSlug, "--")
        /\ SubSeq(SavedSlug, 1, 1) # "-"
        /\ SubSeq(SavedSlug, Len(SavedSlug), Len(SavedSlug)) # "-"

\* C18: a saved report is never changed: whatever is called next, get_report
\* returns for it the content it returned before
C18_ReportsImmutable ==
    [][\A f \in Glob(files) :
          /\ get_report(files', Stem(f)) # None
          /\ get_report(files', Stem(f)).content = get_report(files, Stem(f)).content]_vars

\* the file names index.md lists, in its order
Indexed == [i \in DOMAIN files["index.md"].entries |-> files["index.md"].entries[i].filename]

\* C19: after a save, index.md lists every report file of the directory once,
\* the saved one among them, and nothing else, by date descending as strings
C19_IndexListsTheReports ==
    SaveReturned =>
        /\ "index.md" \in DOMAIN files
        /\ Range(Indexed) = Glob(files)
        /\ Len(Indexed) = Cardinality(Glob(files))
        /\ In(Name(ret.value), Indexed)
        /\ \A i, j \in DOMAIN Indexed :
              i < j => ~StrLess(DateKey(_extract_report_metadata(Indexed[i], files[Indexed[i]])),
                                DateKey(_extract_report_metadata(Indexed[j], files[Indexed[j]])))

\* a save into a directory that holds a report of another date and a file
\* that is no report
C19_Witness ==
    /\ SaveReturned
    /\ "notes.md" \in DOMAIN files
    /\ \E i, j \in DOMAIN Indexed :
          /\ files["index.md"].entries[i].date = strftime_date(now)
          /\ files["index.md"].entries[j].date # strftime_date(now)


----------------------------------------------------------------------------
(* Claims about repeated runs *)

\* the options leave the cache off
CacheOff(o) == o.cache # "True"

\* discover has returned to a caller who left the cache off
UncachedReturned ==
    ret.op = "discover" /\ ret.outcome = "return" /\ CacheOff(ret.options)

----------------------------------------------------------------------------
(* The stages run on facts with any few of the tags _detect_patterns can
   append *)

\* how many tags the patterns of such facts hold at most
MaxTags == 3

\* the tags _detect_patterns appends, in the order it appends them
EmittedTags ==
    <<"api_service", "mvc", "mvc_like", "microservices", "monorepo", "has_tests",
      "documented", "cli_application", "rich_output", "plugin_architecture",
      "template_system", "hybrid_configuration", "cross_platform",
      "documentation_system", "containerized">>

TaggedPatternLists ==
    { SelectSeq(EmittedTags, LAMBDA t : t \in S) :
        S \in {X \in SUBSET Range(EmittedTags) : Cardinality(X) <= MaxTags} }

TaggedFacts == { Facts(p, z, t) : p \in Profiles, z \in Sizes, t \in TaggedPatternLists }

TaggedInit ==
    /\ now = 0
    /\ dirExists = [d \in Dirs |-> TRUE]
    /\ files = [d \in Dirs |-> NoFiles]
    /\ cache = [k \in {} |-> Corrupt]
    /\ scope = CHOOSE u \in Scopes : ~u.moving
    /\ ret = NoRet
    /\ \E a \in TaggedFacts :
          inv = [Idle EXCEPT !.pc = "stage", !.analysis_data = a]

TaggedSpec == TaggedInit /\ [][StageNext]_vars

----------------------------------------------------------------------------
(* Claims about the synthesis *)

\* the rows of the architecture table, the most specific first: the tags a
\* row asks for and the type it gives
ArchitectureRows ==
    << [tags |-> {"cli_application", "plugin_architecture"},
        type |-> "cli_development_framework"],
       [tags |-> {"cli_application"},     type |-> "cli_application"],
       [tags |-> {"plugin_architecture"}, type |-> "plugin_based"],
       [tags |-> {"microservices"},       type |-> "microservices"],
       [tags |-> {"monorepo"},            type |-> "monorepo"],
       [tags |-> {"api_service"},         type |-> "api_service"],
       [tags |-> {"mvc"},                 type |-> "mvc"],
       [tags |-> {"mvc_like"},            type |-> "mvc"] >>

\* the rows the patterns of the facts match
MatchingRows ==
    {i \in DOMAIN ArchitectureRows :
        ArchitectureRows[i].tags \subseteq Range(inv.analysis_data["patterns"])}

\* C22: the architecture type is that of the first row of the table the
\* patterns match: the two CLI tags together give the CLI framework type, the
\* cli_application tag alone comes before every other row, standard is given
\* only when no row matches, and unknown never
C22_TypeIsFirstMatchingRow ==
    Synthesized =>
        LET type == inv.synthesis_data["architecture_summary"].type
        IN  /\ type # "unknown"
            /\ IF MatchingRows = {} THEN type = "standard"
               ELSE /\ type # "standard"
                    /\ type = ArchitectureRows[CHOOSE i \in MatchingRows :
                                                  \A j \in MatchingRows : i <= j].type

\* facts tagged as a CLI with plugins in a monorepo: three rows match
C22_Witness ==
    /\ Synthesized
    /\ {"cli_application", "plugin_architecture", "monorepo"}
          \subseteq Range(inv.analysis_data["patterns"])
    /\ inv.synthesis_data["architecture_summary"].type = "cli_development_framework"

\* C26: no insight text stands twice in the insights of a synthesis
C26_NoInsightTwice ==
    Synthesized =>
        \A i, j \in DOMAIN inv.synthesis_data["insights"] :
            inv.synthesis_data["insights"][i] = inv.synthesis_data["insights"][j] => i = j

\* the facts with one more tag
WithTag(analysis_data, tag) ==
    [analysis_data EXCEPT !["patterns"] = Append(@, tag)]

\* C30: adding a tag _detect_patterns can append to the patterns of the
\* facts, all else unchanged, never lowers the overall score, also when the
\* tag changes the project type
C30_ScoreMonotoneInPatterns ==
    Synthesized =>
        \A i \in DOMAIN EmittedTags :
            ~In(EmittedTags[i], inv.analysis_data["patterns"]) =>
                _assess_quality(WithTag(inv.analysis_data, EmittedTags[i])).overall_score
                    >= inv.synthesis_data["quality_assessment"].overall_score

\* a documented and tested library: the cli_application tag makes it a CLI
\* application, which loses the two library bonuses
C30_Witness ==
    /\ Synthesized
    /\ _determine_project_type(inv.analysis_data) = "library"
    /\ {"documented", "has_tests"} \subseteq Range(inv.analysis_data["patterns"])
    /\ _determine_project_type(WithTag(inv.analysis_data, "cli_application"))
          = "cli_application"
    /\ inv.synthesis_data["quality_assessment"].overall_score < 95

----------------------------------------------------------------------------
(* Claims about the analyzer's scans *)

\* the tags the synthesis is specified over
Vocabulary ==
    {"api_service", "mvc", "microservices", "monorepo", "has_tests", "documented",
     "containerized", "cli_application", "plugin_architecture", "template_system",
     "hybrid_configuration", "cross_platform"}

PatternsDone == Has(inv.analysis_data, "patterns")

\* C23 as stated: every tag of patterns is one of the twelve of the vocabulary.
C23_PatternsInVocabulary ==
    PatternsDone =>
        \A i \in DOMAIN inv.analysis_data["patterns"] :
            inv.analysis_data["patterns"][i] \in Vocabulary

\* C23: every tag of patterns is one of the twelve of the vocabulary or one
\* of mvc_like, rich_output and documentation_system.
C23_PatternsInWiderVocabulary ==
    PatternsDone =>
        \A i \in DOMAIN inv.analysis_data["patterns"] :
            inv.analysis_data["patterns"][i]
                \in Vocabulary \cup {"mvc_like", "rich_output", "documentation_system"}

\* a click project with models/ and nexus_docs/: all three further tags
C23_Witness ==
    /\ PatternsDone
    /\ \A t \in {"mvc_like", "rich_output", "documentation_system", "documented"} :
          In(t, inv.analysis_data["patterns"])

\* the files of the tree with a parsable Python source, by relative path
ParsablePython(tree) ==
    {i \in DOMAIN tree.listing :
        /\ tree.listing[i].kind = "file"
        /\ tree.listing[i].ast.kind = "module"}

QualityDone == Has(inv.analysis_data, "quality_metrics")

\* C24: without deep, python_complexity is empty; with deep, the score of a
\* file is 1 + its if, while, for and handler nodes + (operands - 1) of each
\* boolean operation + its comprehensions.
C24_ComplexityCountsBranches ==
    QualityDone =>
        LET scores == inv.analysis_data["quality_metrics"].python_complexity
            SumLess(ops) == IF ops = << >> THEN 0
                            ELSE LET S[k \in 0..Len(ops)] ==
                                         IF k = 0 THEN 0 ELSE S[k - 1] + ops[k] - 1
                                 IN  S[Len(ops)]
        IN  /\ Get(inv.options, "deep", "False") # "True" => DOMAIN scores = {}
            /\ \A p \in DOMAIN scores :
                  \E i \in ParsablePython(files) :
                     LET a == files.listing[i].ast IN
                     /\ files.listing[i].path = p
                     /\ scores[p] = 1 + a.ifs + a.whiles + a.fors + a.handlers
                                      + SumLess(a.boolops) + a.comps

\* deep analysis of main.py (an if and a for) and of pkg/core.py (an if, a
\* while, two handlers, operations of two and three operands, a comprehension)
C24_Witness ==
    /\ QualityDone
    /\ Get(inv.options, "deep", "False") = "True"
    /\ LET scores == inv.analysis_data["quality_metrics"].python_complexity IN
       /\ Has(scores, "main.py") /\ scores["main.py"] = 3
       /\ Has(scores, "pkg/core.py") /\ scores["pkg/core.py"] = 9

\* the directories whose contents the scans are to skip: repository
\* metadata, build output, dependencies
IgnoredDirectories ==
    {".git", "node_modules", "__pycache__", ".pytest_cache", "venv", "env", ".env",
     "build", "dist", ".next"}

Components(path) ==
    LET cuts == <<0>> \o Keep([i \in 1..Len(path) |-> i],
                              {i \in 1..Len(path) : SubSeq(path, i, i) = "/"})
                     \o <<Len(path) + 1>>
    IN  [k \in 1..(Len(cuts) - 1) |-> SubSeq(path, cuts[k] + 1, cuts[k + 1] - 1)]

\* under an ignored directory, or a bytecode artifact
ToBeIgnored(path) ==
    \/ \E k \in 1..(Len(Components(path)) - 1) : Components(path)[k] \in IgnoredDirectories
    \/ Suffix(path) \in {".pyc", ".pyo", ".pyd", ".so"}

\* C25: a file under an ignored directory, and a bytecode artifact wherever
\* it lies, is in none of the scans: not in total_files, file_types or
\* largest_files, and not in the quality metrics.
C25_IgnoredFilesNotScanned ==
    (QualityDone /\ FirstDenied(files) = 0) =>
        LET structure == inv.analysis_data["structure"]
            quality   == inv.analysis_data["quality_metrics"]
            kept      == {i \in DOMAIN Yielded(files) :
                            /\ files.listing[i].kind = "file"
                            /\ ~ToBeIgnored(files.listing[i].path)}
        IN  /\ structure.total_files <= Cardinality(kept)
            /\ \A i \in DOMAIN structure.largest_files :
                  ~ToBeIgnored(structure.largest_files[i].path)
            /\ \A e \in {".pyc", ".pyo", ".pyd", ".so"} : ~Has(structure.file_types, e)
            /\ \A p \in DOMAIN quality.python_complexity : ~ToBeIgnored(p)

\* what does hold: nothing under an ignored directory is scanned
C25_IgnoredDirectoriesNotScanned ==
    (QualityDone /\ FirstDenied(files) = 0) =>
        LET structure == inv.analysis_data["structure"]
            quality   == inv.analysis_data["quality_metrics"]
            Inside(p) == \E k \in 1..(Len(Components(p)) - 1) :
                            Components(p)[k] \in IgnoredDirectories
        IN  /\ \A i \in DOMAIN structure.largest_files :
                  ~Inside(structure.largest_files[i].path)
            /\ \A p \in DOMAIN quality.python_complexity : ~Inside(p)

----------------------------------------------------------------------------
(* DiscoveryEngine.discover without the cache: the walk of the analyzer on a
   tree, then the synthesis and the validation of what it returned. *)

\* engine.py line 74
PipelineSynthesize ==
    /\ inv.pc = "done"
    /\ ret.op = "analyze" /\ ret.outcome = "return"
    /\ inv.synthesis_data = None
    /\ IF SynthesizeRaises(inv.analysis_data)
          THEN /\ inv' = [inv EXCEPT !.pc = "raised"]
               /\ ret' = Raised("discover", inv.target_path, inv.options,
                                inv.trace \o <<"synthesize">>)
          ELSE /\ inv' = [inv EXCEPT
                            !.synthesis_data =
                                DiscoverySynthesizer_synthesize(inv.analysis_data),
                            !.trace = @ \o <<"synthesize">>]
               /\ ret' = ret
    /\ UNCHANGED <<now, dirExists, files, cache, scope>>

\* engine.py lines 78-96; the options of the walks do not ask for the cache
PipelineValidate ==
    /\ inv.pc = "done"
    /\ inv.synthesis_data # None
    /\ inv.validation_data = None
    /\ LET v == DiscoveryValidator_validate(inv.analysis_data, inv.synthesis_data) IN
       /\ inv' = [inv EXCEPT !.pc = "returned", !.validation_data = v,
                             !.trace = @ \o <<"validate">>]
       /\ ret' = Returned("discover", inv.target_path, inv.options,
                          discovery_results(_generate_metadata(inv.target_path,
                                                               inv.options),
                                            inv.analysis_data, inv.synthesis_data, v),
                          "none", inv.trace \o <<"validate">>, None)
    /\ UNCHANGED <<now, dirExists, files, cache, scope>>

PipelineNext == WalkNext \/ PipelineSynthesize \/ PipelineValidate

PipelineSpec == WalkInit /\ [][PipelineNext]_vars

----------------------------------------------------------------------------
(* Claims about the pipeline *)

PipelineReturned == ret.op = "discover" /\ ret.outcome = "return" /\ inv.pc = "returned"

\* C27: every result that discover returns from a run of the pipeline is
\* valid and has no errors: the analysis has its seven fields, the synthesis
\* its five and an overall score.
C27_PipelineResultsAreValid ==
    PipelineReturned =>
        /\ ret.value.validation.is_valid = "True"
        /\ ret.value.validation.errors = << >>
        /\ \A i \in DOMAIN analysis_required_fields :
              Has(ret.value.analysis, analysis_required_fields[i])
        /\ \A k \in {"insights", "recommendations", "architecture_summary",
                     "quality_assessment", "technology_stack"} :
              Has(ret.value.synthesis, k)
        /\ Has(ret.value.synthesis["quality_assessment"], "overall_score")

\* the result of a run on a project with sources and several patterns: no
\* warning either
C27_Witness ==
    /\ PipelineReturned
    /\ ret.value.validation.warnings = << >>
    /\ Len(ret.value.analysis["patterns"]) > 1

----------------------------------------------------------------------------
(* Claims about the spelling of paths *)

\* C28: lookups do not depend on the spelling of the path. A get that finds
\* an entry written under any spelling of the same directory, its manifests
\* as they were and the TTL unexpired, returns the entry's results and
\* leaves it in place; a clear of a path leaves no entry of its directory.
C28_LookupIgnoresSpelling ==
    /\ ( /\ GetReturned
         /\ ret.found # None /\ ret.found.kind = "entry"
         /\ FoundAge <= default_ttl
         /\ ret.found.snap = files[resolve(ret.path)] )
       => /\ ret.value = ret.found.results
          /\ Addr(ret.path, ret.options) \in DOMAIN cache
    /\ (ret.op = "clear" /\ ret.path # NoPath)
       => \A k \in DOMAIN cache :
             cache[k].kind = "entry" => resolve(cache[k].target_path) # resolve(ret.path)

\* what does hold: lookups under the spelling the entry was written with
C28_LookupUnderSameSpelling ==
    /\ ( /\ GetReturned
         /\ ret.found # None /\ ret.found.kind = "entry"
         /\ FoundAge <= default_ttl
         /\ ret.found.snap = files[resolve(ret.path)]
         /\ ret.found.target_path = str(ret.path) )
       => /\ ret.value = ret.found.results
          /\ Addr(ret.path, ret.options) \in DOMAIN cache
    /\ (ret.op = "clear" /\ ret.path # NoPath)
       => \A k \in DOMAIN cache :
             cache[k].kind = "entry" => cache[k].target_path # str(ret.path)

----------------------------------------------------------------------------
(* Two calls at once.  Each call is a process that takes the file operations
   of DiscoveryCache.get and DiscoveryCache.set one at a time; between two
   of them the other call may run.  The cache directory maps a key to the
   content of its file: a complete pickle, or Corrupt for a file that is
   empty or partly written.  A file that is unlinked while a writer holds it
   open is gone from the directory, and what the writer writes afterwards is
   lost with it.  In this specification inv and ret hold one value for each
   process, and scope the two calls. *)

Procs == {1, 2}

Call(call, p, o, results) ==
    [call |-> call, path |-> p, options |-> o, results |-> results]

\* discover on two directories, and a set with a get on one key
Scenarios ==
    { <<Call("discover", WA, o1, None), Call("discover", WB, o2, None)>> :
        o1 \in {O1, O2}, o2 \in {O1, O2} }
    \cup
    { <<Call("set", WA, o, R1), Call("get", WA, o, None)>> : o \in {O1, O2} }

\* the calls run a TTL and a half after the clock's origin
ConcNow == default_ttl + default_ttl \div 2

\* the file a key may have before the calls: none, a complete entry written
\* 12 hours ago or 36 hours ago, or a corrupt file
Before == {"absent", "fresh", "expired", "corrupt"}

EntryBefore(c, age) ==
    [ cache_data(c.path, c.options,
                 PipelineResults(resolve(c.path), c.options, ConcNow - age, NoFiles))
        EXCEPT !.timestamp = ConcNow - age ]

ContentBefore(c, b) ==
    CASE b = "fresh"   -> EntryBefore(c, 12)
      [] b = "expired" -> EntryBefore(c, 36)
      [] b = "corrupt" -> Corrupt

Key(c) == _generate_cache_key(c.path, c.options)

CachesBefore(calls) ==
    LET keys == {Key(calls[i]) : i \in DOMAIN calls}
        of(k) == CHOOSE i \in DOMAIN calls : Key(calls[i]) = k
    IN  { [k \in {x \in keys : b[x] # "absent"} |-> ContentBefore(calls[of(k)], b[k])] :
            b \in [keys -> Before] }

\* the locals of a call: where it is, what it read, the handle it writes
\* through, what it wrote, and the file operations it has done
Local(c) ==
    [ pc |-> IF c.call = "set" THEN "set_open" ELSE "get_exists",
      read |-> None, handle |-> "none", data |-> None, results |-> c.results,
      log |-> << >> ]

ConcInit ==
    /\ now = ConcNow
    /\ dirExists = [d \in Dirs |-> TRUE]
    /\ files = [d \in Dirs |-> NoFiles]
    /\ scope \in Scenarios
    /\ cache \in CachesBefore(scope)
    /\ inv = [p \in Procs |-> Local(scope[p])]
    /\ ret = [p \in Procs |-> NoRet]

\* the call returns
Leave(p, local, value, branch) ==
    /\ inv' = [inv EXCEPT ![p] = [local EXCEPT !.pc = "done"]]
    /\ ret' = [ret EXCEPT ![p] = Returned(scope[p].call, scope[p].path, scope[p].options,
                                          value, branch, local.log, None)]

\* a get that found nothing: a direct get returns None, discover goes on
Missed(p, local, branch) ==
    IF scope[p].call = "get"
        THEN Leave(p, local, None, branch)
        ELSE /\ inv' = [inv EXCEPT ![p] = [local EXCEPT !.pc = "pipeline"]]
             /\ ret' = ret

\* cache.py line 39
ConcGetExists(p) ==
    LET k     == Key(scope[p])
        local == [inv[p] EXCEPT !.log = Append(@, <<"exists", k>>)]
    IN  /\ inv[p].pc = "get_exists"
        /\ IF k \in DOMAIN cache
              THEN /\ inv' = [inv EXCEPT ![p] = [local EXCEPT !.pc = "get_read"]]
                   /\ ret' = ret
              ELSE Missed(p, local, "nofile")
        /\ UNCHANGED <<now, dirExists, files, cache, scope>>

\* lines 43-44: open and pickle.load; a missing, empty or partial file raises
ConcGetRead(p) ==
    LET k     == Key(scope[p])
        local == [inv[p] EXCEPT !.log = Append(@, <<"read", k>>)]
    IN  /\ inv[p].pc = "get_read"
        /\ IF k \in DOMAIN cache /\ cache[k].kind = "entry"
              THEN inv' = [inv EXCEPT ![p] = [local EXCEPT !.pc = "get_check",
                                                           !.read = cache[k]]]
              ELSE inv' = [inv EXCEPT ![p] = [local EXCEPT !.pc = "get_unlink",
                                                           !.read = Corrupt]]
        /\ UNCHANGED <<now, dirExists, files, cache, ret, scope>>

\* lines 47-48
ConcGetCheck(p) ==
    /\ inv[p].pc = "get_check"
    /\ IF _is_cache_valid(inv[p].read, scope[p].path)
          THEN Leave(p, inv[p], inv[p].read.results, "hit")
          ELSE /\ inv' = [inv EXCEPT ![p].pc = "get_unlink"]
               /\ ret' = ret
    /\ UNCHANGED <<now, dirExists, files, cache, scope>>

\* a writer whose file is unlinked under it
Detached(local, k, q) ==
    IF local.handle = "open" /\ Key(scope[q]) = k
        THEN [local EXCEPT !.handle = "detached"] ELSE local

\* lines 51-52 and 56-60: the unlink; an error of the unlink is passed
ConcGetUnlink(p) ==
    LET k     == Key(scope[p])
        there == IF k \in DOMAIN cache THEN cache[k] ELSE None
        local == [inv[p] EXCEPT !.log = Append(@, <<"unlink", k, there>>)]
        branch == IF inv[p].read = Corrupt THEN "corrupt"
                  ELSE ValidityBranch(inv[p].read, scope[p].path)
    IN  /\ inv[p].pc = "get_unlink"
        /\ cache' = Del(cache, {k})
        /\ IF scope[p].call = "get"
              THEN /\ inv' = [q \in Procs |->
                                IF q = p THEN [local EXCEPT !.pc = "done"]
                                ELSE Detached(inv[q], k, q)]
                   /\ ret' = [ret EXCEPT ![p] =
                                Returned("get", scope[p].path, scope[p].options, None,
                                         branch, local.log, None)]
              ELSE /\ inv' = [q \in Procs |->
                                IF q = p THEN [local EXCEPT !.pc = "pipeline"]
                                ELSE Detached(inv[q], k, q)]
                   /\ ret' = ret
        /\ UNCHANGED <<now, dirExists, files, scope>>

\* engine.py lines 70-89
ConcPipeline(p) ==
    /\ inv[p].pc = "pipeline"
    /\ inv' = [inv EXCEPT ![p].pc = "set_open",
                          ![p].results = PipelineResults(resolve(scope[p].path),
                                                         scope[p].options, now,
                                                         files[resolve(scope[p].path)])]
    /\ UNCHANGED <<now, dirExists, files, cache, ret, scope>>

\* cache.py lines 70-82: the dict to pickle, then open(cache_file, 'wb'),
\* which creates the file or empties it
ConcSetOpen(p) ==
    LET k == Key(scope[p]) IN
    /\ inv[p].pc = "set_open"
    /\ cache' = Put(cache, k, Corrupt)
    /\ inv' = [inv EXCEPT ![p].pc = "set_write", ![p].handle = "open",
                          ![p].data = cache_data(scope[p].path, scope[p].options,
                                                 inv[p].results),
                          ![p].log = Append(@, <<"open", k>>)]
    /\ UNCHANGED <<now, dirExists, files, ret, scope>>

\* line 83: pickle.dump into the buffered file; the bytes may reach the file
\* now or when it is closed
ConcSetWrite(p, flushed) ==
    LET k == Key(scope[p]) IN
    /\ inv[p].pc = "set_write"
    /\ cache' = IF flushed /\ inv[p].handle = "open" THEN Put(cache, k, inv[p].data)
                ELSE cache
    /\ inv' = [inv EXCEPT ![p].pc = "set_close", ![p].log = Append(@, <<"write", k>>)]
    /\ UNCHANGED <<now, dirExists, files, ret, scope>>

\* a close that puts the file back in the directory
ConcSetClose_relinking(p) ==
    LET k == Key(scope[p]) IN
    /\ inv[p].pc = "set_close"
    /\ cache' = Put(cache, k, inv[p].data)
    /\ Leave(p, [inv[p] EXCEPT !.handle = IF @ = "open" THEN "closed" ELSE "lost"],
             inv[p].results, "computed")
    /\ UNCHANGED <<now, dirExists, files, scope>>

\* the end of the with block: the file is complete; then the return of set,
\* and of discover (engine.py line 96)
ConcSetClose(p) ==
    LET k == Key(scope[p]) IN
    /\ inv[p].pc = "set_close"
    /\ cache' = IF inv[p].handle = "open" THEN Put(cache, k, inv[p].data) ELSE cache
    /\ Leave(p, [inv[p] EXCEPT !.handle = IF @ = "open" THEN "closed" ELSE "lost"],
             inv[p].results, "computed")
    /\ UNCHANGED <<now, dirExists, files, scope>>

ConcNext ==
    \E p \in Procs :
        \/ ConcGetExists(p)
        \/ ConcGetRead(p)
        \/ ConcGetCheck(p)
        \/ ConcGetUnlink(p)
        \/ ConcPipeline(p)
        \/ ConcSetOpen(p)
        \/ \E flushed \in BOOLEAN : ConcSetWrite(p, flushed)
        \/ ConcSetClose(p)

ConcSpec == ConcInit /\ [][ConcNext]_vars

----------------------------------------------------------------------------
(* Claims about calls at once *)

ConcDone == \A p \in Procs : inv[p].pc = "done"

DiscoverPair == \A p \in Procs : scope[p].call = "discover"

SetGetPair == scope[1].call = "set" /\ scope[2].call = "get"

\* C29 as stated: when a set and a get on one key have both finished, the
\* entry written by set is there, and a get that follows returns its result.
C29_SetSurvivesConcurrentGet ==
    (SetGetPair /\ ConcDone) =>
        LET k == Addr(scope[1].path, scope[1].options) IN
        /\ k \in DOMAIN cache
        /\ cache[k] = inv[1].data
        /\ get(scope[2].path, scope[2].options).value = scope[1].results

\* the get unlinked the file after set had opened it: under the open handle,
\* or the completed entry after the close
UnlinkedSinceOpen ==
    \/ inv[1].handle = "lost"
    \/ \E i \in DOMAIN inv[2].log :
          inv[2].log[i] = <<"unlink", Addr(scope[1].path, scope[1].options), inv[1].data>>

\* C29: when a set and a get on one key have both finished, the entry
\* written by set is there, complete, and a get that follows returns its
\* result, unless the get unlinked the file after set had opened it: then
\* there is no entry and a get that follows returns None.
C29_SetSurvivesUnlessUnlinkedSinceOpen ==
    (SetGetPair /\ ConcDone) =>
        LET k == Addr(scope[1].path, scope[1].options) IN
        IF UnlinkedSinceOpen
            THEN /\ k \notin DOMAIN cache
                 /\ get(scope[2].path, scope[2].options).value = None
            ELSE /\ k \in DOMAIN cache
                 /\ cache[k] = inv[1].data
                 /\ get(scope[2].path, scope[2].options).value = scope[1].results

\* the get unlinked an older file before set opened its own: the entry stays
C29_Witness ==
    /\ SetGetPair /\ ConcDone
    /\ ~UnlinkedSinceOpen
    /\ \E i \in DOMAIN inv[2].log : inv[2].log[i][1] = "unlink"
    /\ get(scope[2].path, scope[2].options).value = scope[1].results

\* the get read the file while set had it empty, and unlinked it
C29_EntryLost ==
    /\ SetGetPair /\ ConcDone
    /\ inv[1].handle = "lost"
    /\ ret[2].branch = "corrupt"
    /\ cache = [k \in {} |-> Corrupt]

====
